---- MODULE Spec2Model ----
(***************************************************************************)
(* Model of the staged PDF ingestion pipeline of                           *)
(* backend/src/services/bookProcessorNew.ts together with the tables of    *)
(* migrations 001/002 (books, book_processing_jobs, document_chunks,       *)
(* document_chunks_staging) and the admin deletion route.                  *)
(*                                                                         *)
(* A page text is represented by its length in characters; the texts are   *)
(* taken to be free of leading/trailing white space in every window, so    *)
(* that String.trim() leaves the length unchanged.                         *)
(***************************************************************************)
EXTENDS Integers, Sequences, FiniteSets, Bags, TLC

\* ---------------------------------------------------------------- bounds
\* largest page count of an uploaded PDF
MaxPages == 3

\* largest number of rows searchSimilarDocuments returns in the model
MaxResults == 3
\* largest number of chunks chunkPagedText gives processPDF in the model
MaxSyncChunks == 4
\* largest page count the page partition is computed for
MaxPartitionPages == 30
\* number of extractSinglePage calls made, each by another caller
MaxCallers == 2
\* number of milliseconds Date.now() advances while the calls are made
MaxClock == 1
\* longest text chunkText is called on with small options
MaxTextLen == 7
\* number of chunks after which a chunkText loop is no longer followed
MaxTextChunks == 6

\* ------------------------------------------------------ program constants
WORKERS == 3
CHUNK_SIZE == 1000
OVERLAP == 200
LOOKAHEAD_TARGET == 2000
MIN_CHUNK_LEN == 50
EMBED_BATCH_SIZE == 50
PoolMax == 10
\* rag.ts: distances are held in hundredths, so the threshold 0.5 is 50
SIMILARITY_THRESHOLD == 50
TOP_K == 5
MAX_QUERY_LENGTH == 2000
\* chunking.ts
DEFAULT_CHUNK_SIZE == 1000
DEFAULT_CHUNK_OVERLAP == 200

\* identifiers: job j processes book j (uuidv4 values, one pair per upload)
JobIds == {1}
WorkerIds == 1..WORKERS
\* lengths of the page texts an uploaded PDF may have: an empty page, a page
\* of two windows, a page below the minimum chunk length, and a page long
\* enough to give more chunks than one embedding batch holds
PageLens == {0, 900}
ShortPageLen == MIN_CHUNK_LEN - 10
LongPageLen == EMBED_BATCH_SIZE * (CHUNK_SIZE - OVERLAP) + 100
PdfFiles ==
  UNION {[1..n -> PageLens] : n \in 1..MaxPages}
  \cup {<<LongPageLen>>, <<LongPageLen, ShortPageLen>>, <<ShortPageLen, ShortPageLen>>}

Min(a, b) == IF a < b THEN a ELSE b
CeilDiv(a, b) == (a + b - 1) \div b

\* ------------------------------------------------------------ pure helpers
\* peekAhead: accumulated length, the pages read and the pieces appended
\* (page, number of leading characters taken), as the loop computes them
RECURSIVE PeekLoop(_, _, _, _, _, _)
\* variant: a page is appended whole, not cut to the characters still needed
PeekLoop_WholePages(pdf, currentPage, totalPages, targetChars, acc, read) ==
  IF ~(acc < targetChars /\ currentPage <= totalPages)
  THEN [len |-> acc, pages |-> read, pieces |-> <<>>]
  ELSE LET pageLen == pdf[currentPage]
           read1 == read \cup {currentPage}
       IN IF pageLen = 0
          THEN PeekLoop(pdf, currentPage + 1, totalPages, targetChars, acc, read1)
          ELSE LET acc1 == acc + (IF acc > 0 THEN 2 ELSE 0) + pageLen
                   piece == [page |-> currentPage, chars |-> pageLen]
               IN IF acc1 >= targetChars
                  THEN [len |-> acc1, pages |-> read1, pieces |-> <<piece>>]
                  ELSE LET rest == PeekLoop(pdf, currentPage + 1, totalPages,
                                            targetChars, acc1, read1)
                       IN [rest EXCEPT !.pieces = <<piece>> \o @]

PeekLoop(pdf, currentPage, totalPages, targetChars, acc, read) ==
  IF ~(acc < targetChars /\ currentPage <= totalPages)
  THEN [len |-> acc, pages |-> read, pieces |-> <<>>]
  ELSE LET pageLen == pdf[currentPage]
           read1 == read \cup {currentPage}
       IN IF pageLen = 0
          THEN PeekLoop(pdf, currentPage + 1, totalPages, targetChars, acc, read1)
          ELSE LET neededChars == targetChars - acc
                   contribution == Min(pageLen, neededChars)
                   acc1 == acc + (IF acc > 0 THEN 2 ELSE 0) + contribution
                   piece == [page |-> currentPage, chars |-> contribution]
               IN IF acc1 >= targetChars
                  THEN [len |-> acc1, pages |-> read1, pieces |-> <<piece>>]
                  ELSE IF pageLen <= neededChars
                       THEN LET rest == PeekLoop(pdf, currentPage + 1, totalPages,
                                                 targetChars, acc1, read1)
                            IN [rest EXCEPT !.pieces = <<piece>> \o @]
                       ELSE [len |-> acc1, pages |-> read1, pieces |-> <<piece>>]

peekAhead(pdf, startPage, totalPages, targetChars) ==
  PeekLoop(pdf, startPage, totalPages, targetChars, 0, {})

\* processPage: the chunks of one page, in window order
RECURSIVE PageLoop(_, _, _, _, _, _)
PageLoop(pdf, pageNum, totalPages, startIndex, chunkIndex, chunks) ==
  LET pageLen == pdf[pageNum] IN
  IF ~(startIndex < pageLen)
  THEN chunks
  ELSE LET endIndex == Min(startIndex + CHUNK_SIZE, pageLen)
           isLastChunk == startIndex + CHUNK_SIZE >= pageLen
           look == IF isLastChunk /\ pageNum < totalPages
                   THEN peekAhead(pdf, pageNum + 1, totalPages, LOOKAHEAD_TARGET).len
                   ELSE 0
           textLen == (endIndex - startIndex) + (IF look > 0 THEN 2 + look ELSE 0)
       IN IF textLen > MIN_CHUNK_LEN
          THEN PageLoop(pdf, pageNum, totalPages, startIndex + CHUNK_SIZE - OVERLAP,
                        chunkIndex + 1,
                        Append(chunks, [pageNumber |-> pageNum,
                                        chunkIndex |-> chunkIndex,
                                        textLength |-> textLen,
                                        startIndex |-> startIndex,
                                        lookahead |-> look]))
          ELSE PageLoop(pdf, pageNum, totalPages, startIndex + CHUNK_SIZE - OVERLAP,
                        chunkIndex, chunks)

processPage(pdf, pageNum, totalPages) ==
  IF pdf[pageNum] = 0 THEN <<>>
  ELSE PageLoop(pdf, pageNum, totalPages, 0, 0, <<>>)

\* the pages extractSinglePage is asked for during processPage(pageNum)
PagesRead(pdf, pageNum, totalPages) ==
  {pageNum} \cup
  (IF pdf[pageNum] > 0 /\ pageNum < totalPages
   THEN peekAhead(pdf, pageNum + 1, totalPages, LOOKAHEAD_TARGET).pages
   ELSE {})

\* page range of worker i (0-based in the source, 1-based here)
\* variant: the pages per worker are rounded down
pagesPerWorker_Floor(totalPages) == totalPages \div WORKERS

pagesPerWorker(totalPages) == CeilDiv(totalPages, WORKERS)
processStart(w, totalPages) == (w - 1) * pagesPerWorker(totalPages) + 1
processEnd(w, totalPages) == Min(w * pagesPerWorker(totalPages), totalPages)
\* the pages the loop pageNum = processStart .. processEnd of worker w visits
PageRange(w, totalPages) == processStart(w, totalPages)..processEnd(w, totalPages)

\* bag helpers for the two chunk tables (rows carry a fresh uuid in the
\* source, so equal contents may be stored more than once)
SeqToBag(s) ==
  [x \in {s[k] : k \in DOMAIN s} |-> Cardinality({k \in DOMAIN s : s[k] = x})]
BagWhere(B, P(_)) == [r \in {x \in DOMAIN B : P(x)} |-> B[r]]
StagingRow(j, c) ==
  [job_id |-> j, book_id |-> j, page_number |-> c.pageNumber, chunk_index |-> c.chunkIndex]
ChunkRow(r) ==
  [book_id |-> r.book_id, page_number |-> r.page_number, chunk_index |-> r.chunk_index]


\* ------------------------------------------------------------------ state
VARIABLES
  books,                    \* table books: id -> row
  book_processing_jobs,     \* table book_processing_jobs: id -> row
  document_chunks,          \* committed chunk table (bag of rows)
  document_chunks_staging,  \* staging chunk table (bag of rows)
  pdf,                      \* per upload: the page texts of the PDF (lengths)
  pdfFile,                  \* per upload: PROCESSING_DIR/<bookId>.pdf exists
  pageCache,                \* keys <<pdf, page>> of the module-level pageCache
  poolFree,                 \* unused connections of the pg pool
  cpc,                      \* position of processBookInBackground per job
  cerr,                     \* error caught by processBookInBackground
  joinErr,                  \* rejection reason of Promise.all(workerPromises)
  wpc,                      \* position of each worker promise
  wpage,                    \* pageNum of the worker's page loop
  wbatch,                   \* i of the worker's batch loop
  reported,                 \* what the background task logged as its outcome
  deleted,                  \* history: deleteBook committed for this book
  stagedEver,               \* history: every row a worker inserted into staging
  embedRequests,            \* history: embeddings.create calls made for the
                            \* worker's current batch
  qpc,                      \* position of the POST /topics/:id/messages handler
  content,                  \* req.body.content of the request being handled
  searchResults,            \* rows returned by searchSimilarDocuments
  ragResponse,              \* value processQuery resolved with
  completionRequests,       \* chat.completions.create calls made by the handler
  qerr,                     \* the await of the handler that threw
  httpResponse,             \* what the handler sent to the caller
  messages,                 \* table messages, in insertion order
  ppc,                      \* position of processPDF
  txn,                      \* uncommitted writes of processPDF's transaction
  pagedChunks,              \* page numbers of the chunks chunkPagedText gave processPDF
  totalChunksProcessed,     \* processPDF's counter of chunks stored
  perr,                     \* error caught by processPDF
  processingResult,         \* ProcessingResult processPDF returned
  pageTexts,                \* the page texts pdftotext gives for the PDF that
                            \* processPage is called on (runs of characters)
  pageLoop,                 \* locals of the processPage call in progress
  cutWindows,               \* history: every window the while loop has cut
  returnedChunks,           \* history: the chunks of the calls that returned
  clock,                    \* Date.now()
  tmpFiles,                 \* the files /tmp/extract-page-*.txt: name -> content
  calls,                    \* the extractSinglePage calls: position and locals
  cachedText,               \* the pageCache Map with its values: key -> text
  pdftotextRuns,            \* history: pdftotext processes started per key
  jobsAt,                   \* number of ingestion jobs at each position, for
                            \* the jobs that share the connection pool
  chunkTextArgs,            \* text and options chunkText is called with
  chunkTextLoop             \* locals of the chunkText call

vars == <<books, book_processing_jobs, document_chunks, document_chunks_staging,
          pdf, pdfFile, pageCache, poolFree, cpc, cerr, joinErr,
          wpc, wpage, wbatch, reported, deleted, stagedEver, embedRequests,
          qpc, content, searchResults, ragResponse, completionRequests, qerr,
          httpResponse, messages,
          ppc, txn, pagedChunks, totalChunksProcessed, perr, processingResult,
          pageTexts, pageLoop, cutWindows, returnedChunks,
          clock, tmpFiles, calls, cachedText, pdftotextRuns, jobsAt,
          chunkTextArgs, chunkTextLoop>>

dbVars == <<books, book_processing_jobs, document_chunks, document_chunks_staging>>
fileVars == <<pdf, pdfFile, pageCache>>
coordVars == <<cpc, cerr, reported>>
workerVars == <<wpc, wpage, wbatch, joinErr>>
histVars == <<deleted, stagedEver, embedRequests>>
\* state of the chat route and of the synchronous pipeline processPDF
askVars == <<qpc, content, searchResults, ragResponse, completionRequests, qerr,
             httpResponse, messages>>
syncVars == <<ppc, txn, pagedChunks, totalChunksProcessed, perr, processingResult>>
\* state of the functions that are also checked call by call
chunkerVars == <<pageTexts, pageLoop, cutWindows, returnedChunks>>
extractVars == <<clock, tmpFiles, calls, cachedText, pdftotextRuns>>
splitterVars == <<chunkTextArgs, chunkTextLoop>>
unitVars == <<chunkerVars, extractVars, jobsAt, splitterVars>>
otherVars == <<askVars, syncVars, unitVars>>
pipelineVars == <<pdf, pdfFile, pageCache, poolFree, cpc, cerr, joinErr,
                  wpc, wpage, wbatch, reported, deleted, stagedEver, embedRequests>>

NoErr == "none"

\* a question as String.trim() sees it: lead and trail white-space characters
\* around body characters whose first and last are not white space (a
\* white-space-only string has body = 0 and trail = 0)
Question(lead, body, trail) == [lead |-> lead, body |-> body, trail |-> trail]
NoResponse == [answer |-> "none", citations |-> <<>>, hasRelevantDocs |-> FALSE]
NoHttpResponse == [status |-> 0, error |-> NoErr, answer |-> "none", citations |-> <<>>]
NoTxn == [book |-> "none", chunks |-> {}]
NoResult == [success |-> FALSE, chunksProcessed |-> 0, error |-> NoErr, returned |-> FALSE]

\* no request is being handled by the chat route
AskIdle ==
  /\ qpc = "idle"
  /\ content = Question(0, 0, 0)
  /\ searchResults = <<>>
  /\ ragResponse = NoResponse
  /\ completionRequests = 0
  /\ qerr = NoErr
  /\ httpResponse = NoHttpResponse
  /\ messages = <<>>

\* processPDF has not been called
SyncIdle ==
  /\ ppc = "idle"
  /\ txn = NoTxn
  /\ pagedChunks = <<>>
  /\ totalChunksProcessed = 0
  /\ perr = NoErr
  /\ processingResult = NoResult

\* the tables after the migrations ran
EmptyDatabase ==
  /\ books = <<>>
  /\ book_processing_jobs = <<>>
  /\ document_chunks = EmptyBag
  /\ document_chunks_staging = EmptyBag

\* the state of the server process when it has started
ProcessStart ==
  /\ pdf = [j \in JobIds |-> <<>>]
  /\ pdfFile = [j \in JobIds |-> FALSE]
  /\ pageCache = {}
  /\ poolFree = PoolMax
  /\ cpc = [j \in JobIds |-> "idle"]
  /\ cerr = [j \in JobIds |-> NoErr]
  /\ joinErr = [j \in JobIds |-> NoErr]
  /\ wpc = [j \in JobIds |-> [w \in WorkerIds |-> "idle"]]
  /\ wpage = [j \in JobIds |-> [w \in WorkerIds |-> 0]]
  /\ wbatch = [j \in JobIds |-> [w \in WorkerIds |-> 0]]
  /\ reported = [j \in JobIds |-> "none"]
  /\ deleted = [j \in JobIds |-> FALSE]
  /\ stagedEver = [j \in JobIds |-> EmptyBag]
  /\ embedRequests = [j \in JobIds |-> [w \in WorkerIds |-> 0]]

\* processPage has not been called
NoLoop == [pc |-> "idle", pageNum |-> 0, startIndex |-> 0, chunkIndex |-> 0, chunks |-> <<>>]
ChunkerIdle ==
  /\ pageLoop = NoLoop
  /\ cutWindows = <<>>
  /\ returnedChunks = <<>>

\* the documents and pages extractSinglePage is called for: the processing
\* files of two jobs, two pages each
DocPaths == {1, 2}
PageNums == {1, 2}
CacheKey(pdfPath, pageNum) == <<pdfPath, pageNum>>
CacheKeySet == {CacheKey(path, n) : path \in DocPaths, n \in PageNums}
CallerIds == 1..MaxCallers
NoCall == [pc |-> "idle", pdfPath |-> 0, pageNum |-> 0, tempOutput |-> <<>>, text |-> "none"]
\* no extractSinglePage call was made yet
ExtractIdle ==
  /\ clock = 0
  /\ tmpFiles = <<>>
  /\ calls = [c \in CallerIds |-> NoCall]
  /\ cachedText = <<>>
  /\ pdftotextRuns = [key \in CacheKeySet |-> 0]

\* as many uploads as the pool has connections
PoolJobs == PoolMax
\* where a job stands with respect to the pool: the position of
\* processBookInBackground, and how many of its workers wait in pool.connect()
\* or hold a client (the others have released theirs)
JobAt(pc, waiting, holding) == [cpc |-> pc, waiting |-> waiting, holding |-> holding]
PoolPositions ==
  {JobAt(pc, 0, 0) : pc \in {"idle", "connect", "commit_connect", "commit_txn", "ended"}}
  \cup {JobAt("await", n, h) : n \in 0..WORKERS, h \in 0..WORKERS}
\* no file was uploaded yet
PoolIdle == jobsAt = [at \in PoolPositions |-> IF at = JobAt("idle", 0, 0) THEN PoolJobs ELSE 0]

\* chunkText has not been called
NoSplit == [pc |-> "idle", normalizedText |-> <<>>, startIndex |-> 0, chunkIndex |-> 0,
            chunks |-> <<>>]
SplitterIdle == chunkTextLoop = NoSplit

UnitsIdle ==
  /\ pageTexts = <<>>
  /\ ChunkerIdle
  /\ ExtractIdle
  /\ PoolIdle
  /\ chunkTextArgs = [text |-> <<>>, chunkSize |-> 0, chunkOverlap |-> 0]
  /\ SplitterIdle

Init == EmptyDatabase /\ ProcessStart /\ AskIdle /\ SyncIdle /\ UnitsIdle

JobExists(j) == j \in DOMAIN book_processing_jobs
BookExists(b) == b \in DOMAIN books
JobStatus(j) == book_processing_jobs[j].status
totalPagesOf(j) == Len(pdf[j])
StagingOf(j) == BagWhere(document_chunks_staging, LAMBDA r : r.job_id = j)
ChunksOf(b) == BagWhere(document_chunks, LAMBDA r : r.book_id = b)
WorkerRunning(j, w) == wpc[j][w] \in {"connect", "page", "embed", "insert", "then"}
WorkerHoldsClient(j, w) == wpc[j][w] \in {"page", "embed", "insert"}

\* ----------------------------------------------------- uploadAndProcessBook
\* variant: the book row is committed on its own, the job row is not written
Upload_BookOnly(j, buffer) ==
  /\ cpc[j] = "idle"
  /\ poolFree > 0
  /\ books' = (j :> [processing_status |-> "processing", error_message |-> NoErr]) @@ books
  /\ pdf' = [pdf EXCEPT ![j] = buffer]
  /\ pdfFile' = [pdfFile EXCEPT ![j] = TRUE]
  /\ cpc' = [cpc EXCEPT ![j] = "connect"]
  /\ UNCHANGED <<otherVars, book_processing_jobs, document_chunks, document_chunks_staging,
                 pageCache, poolFree, cerr, reported, workerVars, histVars>>

\* BEGIN; INSERT books; mkdir; writeFile; getPageCount; INSERT
\* book_processing_jobs; COMMIT; processBookInBackground is started
Upload(j, buffer) ==
  /\ cpc[j] = "idle"
  /\ poolFree > 0
  /\ books' = (j :> [processing_status |-> "processing", error_message |-> NoErr]) @@ books
  /\ book_processing_jobs' =
       (j :> [book_id |-> j, total_chunks |-> WORKERS, completed_chunks |-> 0,
              status |-> "processing", error_message |-> NoErr, updated_at |-> 0])
       @@ book_processing_jobs
  /\ pdf' = [pdf EXCEPT ![j] = buffer]
  /\ pdfFile' = [pdfFile EXCEPT ![j] = TRUE]
  /\ cpc' = [cpc EXCEPT ![j] = "connect"]
  /\ UNCHANGED <<otherVars, document_chunks, document_chunks_staging, pageCache, poolFree,
                 cerr, reported, workerVars, histVars>>

\* mkdir / writeFile / getPageCount throws: ROLLBACK, nothing is launched
UploadFail(j, written) ==
  /\ cpc[j] = "idle"
  /\ poolFree > 0
  /\ pdfFile' = [pdfFile EXCEPT ![j] = written]
  /\ cpc' = [cpc EXCEPT ![j] = "upload_failed"]
  /\ UNCHANGED <<otherVars, dbVars, pdf, pageCache, poolFree, cerr, reported, workerVars, histVars>>

\* -------------------------------------------------- processBookInBackground
\* const client = await pool.connect(); then the three workers are created
CoordConnect(j) ==
  /\ cpc[j] = "connect"
  /\ poolFree > 0
  /\ poolFree' = poolFree - 1
  /\ cpc' = [cpc EXCEPT ![j] = "await"]
  /\ wpc' = [wpc EXCEPT ![j] = [w \in WorkerIds |-> "connect"]]
  /\ wpage' = [wpage EXCEPT ![j] = [w \in WorkerIds |-> processStart(w, totalPagesOf(j))]]
  /\ UNCHANGED <<otherVars, dbVars, fileVars, cerr, reported, wbatch, joinErr, histVars>>

\* pool.connect() rejects before the try block is entered: the rejection only
\* reaches the .catch of uploadAndProcessBook, which logs it
CoordConnectFail(j) ==
  /\ cpc[j] = "connect"
  /\ cpc' = [cpc EXCEPT ![j] = "ended"]
  /\ reported' = [reported EXCEPT ![j] = "background_failed"]
  /\ UNCHANGED <<otherVars, dbVars, fileVars, poolFree, cerr, workerVars, histVars>>


\* ------------------------------------------------------------ processPageRange
\* the worker promise rejects with error e; Promise.all rejects with the first
Reject(j, w, e) ==
  /\ wpc' = [wpc EXCEPT ![j][w] = "rejected"]
  /\ joinErr' = [joinErr EXCEPT ![j] = IF @ = NoErr THEN e ELSE @]
  /\ poolFree' = IF WorkerHoldsClient(j, w) THEN poolFree + 1 ELSE poolFree

\* const client = await pool.connect()
WorkerConnect(j, w) ==
  /\ wpc[j][w] = "connect"
  /\ poolFree > 0
  /\ poolFree' = poolFree - 1
  /\ wpc' = [wpc EXCEPT ![j][w] = "page"]
  /\ UNCHANGED <<otherVars, dbVars, fileVars, coordVars, wpage, wbatch, joinErr, histVars>>

WorkerConnectFail(j, w) ==
  /\ wpc[j][w] = "connect"
  /\ Reject(j, w, "connect")
  /\ UNCHANGED <<otherVars, dbVars, fileVars, coordVars, wpage, wbatch, histVars>>

CurrentChunks(j, w) == processPage(pdf[j], wpage[j][w], totalPagesOf(j))
CacheKeys(j, pages) == {<<j, p>> : p \in pages}

\* the page loop is over: finally { client.release() }, then the .then callback
RangeDone(j, w) ==
  /\ wpc[j][w] = "page"
  /\ wpage[j][w] > processEnd(w, totalPagesOf(j))
  /\ poolFree' = poolFree + 1
  /\ wpc' = [wpc EXCEPT ![j][w] = "then"]
  /\ UNCHANGED <<otherVars, dbVars, fileVars, coordVars, wpage, wbatch, joinErr, histVars>>

\* const chunks = await processPage(pdfPath, pageNum, totalPages)
\* pdftotext needs the file unless every page asked for is cached
ProcessPageStep(j, w) ==
  LET read == PagesRead(pdf[j], wpage[j][w], totalPagesOf(j)) IN
  /\ wpc[j][w] = "page"
  /\ wpage[j][w] <= processEnd(w, totalPagesOf(j))
  /\ pdfFile[j] \/ CacheKeys(j, read) \subseteq pageCache
  /\ pageCache' = pageCache \cup CacheKeys(j, read)
  /\ IF Len(CurrentChunks(j, w)) = 0
     THEN /\ wpage' = [wpage EXCEPT ![j][w] = @ + 1]
          /\ UNCHANGED <<wpc, wbatch, embedRequests>>
     ELSE /\ wpc' = [wpc EXCEPT ![j][w] = "embed"]
          /\ wbatch' = [wbatch EXCEPT ![j][w] = 0]
          /\ embedRequests' = [embedRequests EXCEPT ![j][w] = 0]
          /\ UNCHANGED wpage
  /\ UNCHANGED <<otherVars, dbVars, pdf, pdfFile, poolFree, coordVars, joinErr,
                 deleted, stagedEver>>

\* pdftotext fails (file unlinked, or the tool cannot read the page)
ExtractFail(j, w) ==
  /\ wpc[j][w] = "page"
  /\ wpage[j][w] <= processEnd(w, totalPagesOf(j))
  /\ ~(CacheKeys(j, PagesRead(pdf[j], wpage[j][w], totalPagesOf(j))) \subseteq pageCache)
  /\ Reject(j, w, "extract")
  /\ UNCHANGED <<otherVars, dbVars, fileVars, coordVars, wpage, wbatch, histVars>>

\* extractSinglePage(pdfPath, pageNum) of the worker's own page runs in the
\* same millisecond as the lookahead read of that page by another worker:
\* both name the same tempOutput (line 34), the other pdftotext process has
\* just truncated the file when this call reads it, and the page text comes
\* back empty, so processPage returns no chunk (line 120)
ExtractRaced(j, w) ==
  LET pageNum == wpage[j][w] IN
  /\ wpc[j][w] = "page"
  /\ pageNum <= processEnd(w, totalPagesOf(j))
  /\ pdfFile[j]
  /\ pdf[j][pageNum] > 0
  /\ <<j, pageNum>> \notin pageCache
  /\ \E w2 \in WorkerIds \ {w} :
       /\ wpc[j][w2] = "page"
       /\ wpage[j][w2] <= processEnd(w2, totalPagesOf(j))
       /\ pageNum \in PagesRead(pdf[j], wpage[j][w2], totalPagesOf(j))
  /\ pageCache' = pageCache \cup {<<j, pageNum>>}
  /\ wpage' = [wpage EXCEPT ![j][w] = @ + 1]
  /\ UNCHANGED <<otherVars, dbVars, pdf, pdfFile, poolFree, coordVars, wpc, wbatch, joinErr,
                 histVars>>

\* const embeddings = await generateEmbeddings(batch.map(c => c.text))
\* one openai.embeddings.create request, which resolves
Embed(j, w) ==
  /\ wpc[j][w] = "embed"
  /\ embedRequests' = [embedRequests EXCEPT ![j][w] = @ + 1]
  /\ wpc' = [wpc EXCEPT ![j][w] = "insert"]
  /\ UNCHANGED <<otherVars, dbVars, fileVars, poolFree, coordVars, wpage, wbatch, joinErr,
                 deleted, stagedEver>>


\* the request rejects (rate limit or any other API error): generateEmbeddings
\* has no catch, the rejection leaves processPageRange
EmbedFail(j, w) ==
  /\ wpc[j][w] = "embed"
  /\ embedRequests' = [embedRequests EXCEPT ![j][w] = @ + 1]
  /\ Reject(j, w, "embed")
  /\ UNCHANGED <<otherVars, dbVars, fileVars, coordVars, wpage, wbatch, deleted, stagedEver>>

Batch(j, w) ==
  LET chunks == CurrentChunks(j, w) IN
  SubSeq(chunks, wbatch[j][w] + 1, Min(wbatch[j][w] + EMBED_BATCH_SIZE, Len(chunks)))

BatchRows(j, w) ==
  LET batch == Batch(j, w) IN
  SeqToBag([k \in DOMAIN batch |-> StagingRow(j, batch[k])])

\* variant: staging rows are accepted without a job row (no foreign key)
StageInsert_NoForeignKey(j, w) ==
  /\ wpc[j][w] = "insert"
  /\ document_chunks_staging' = document_chunks_staging (+) BatchRows(j, w)
  /\ stagedEver' = [stagedEver EXCEPT ![j] = @ (+) BatchRows(j, w)]
  /\ IF wbatch[j][w] + EMBED_BATCH_SIZE < Len(CurrentChunks(j, w))
     THEN /\ wbatch' = [wbatch EXCEPT ![j][w] = @ + EMBED_BATCH_SIZE]
          /\ wpc' = [wpc EXCEPT ![j][w] = "embed"]
          /\ embedRequests' = [embedRequests EXCEPT ![j][w] = 0]
          /\ UNCHANGED wpage
     ELSE /\ wpage' = [wpage EXCEPT ![j][w] = @ + 1]
          /\ wpc' = [wpc EXCEPT ![j][w] = "page"]
          /\ UNCHANGED <<wbatch, embedRequests>>
  /\ UNCHANGED <<otherVars, books, book_processing_jobs, document_chunks, fileVars, poolFree,
                 coordVars, joinErr, deleted>>

\* BEGIN; INSERT INTO document_chunks_staging ... per chunk; COMMIT
\* job_id REFERENCES book_processing_jobs(id): the job row must exist
StageInsert(j, w) ==
  /\ wpc[j][w] = "insert"
  /\ j \in DOMAIN book_processing_jobs
  /\ document_chunks_staging' = document_chunks_staging (+) BatchRows(j, w)
  /\ stagedEver' = [stagedEver EXCEPT ![j] = @ (+) BatchRows(j, w)]
  /\ IF wbatch[j][w] + EMBED_BATCH_SIZE < Len(CurrentChunks(j, w))
     THEN /\ wbatch' = [wbatch EXCEPT ![j][w] = @ + EMBED_BATCH_SIZE]
          /\ wpc' = [wpc EXCEPT ![j][w] = "embed"]
          /\ embedRequests' = [embedRequests EXCEPT ![j][w] = 0]
          /\ UNCHANGED wpage
     ELSE /\ wpage' = [wpage EXCEPT ![j][w] = @ + 1]
          /\ wpc' = [wpc EXCEPT ![j][w] = "page"]
          /\ UNCHANGED <<wbatch, embedRequests>>
  /\ UNCHANGED <<otherVars, books, book_processing_jobs, document_chunks, fileVars, poolFree,
                 coordVars, joinErr, deleted>>

\* a statement of the batch transaction fails: ROLLBACK, rethrow
StageInsertFail(j, w) ==
  /\ wpc[j][w] = "insert"
  /\ Reject(j, w, "stage")
  /\ UNCHANGED <<otherVars, dbVars, fileVars, coordVars, wpage, wbatch, histVars>>

\* .then: UPDATE book_processing_jobs SET completed_chunks = completed_chunks + 1,
\* updated_at = NOW() WHERE id = jobId  (on the coordinator's client)
WorkerThen(j, w) ==
  /\ wpc[j][w] = "then"
  /\ book_processing_jobs' =
       IF j \in DOMAIN book_processing_jobs
       THEN [book_processing_jobs EXCEPT ![j].completed_chunks = @ + 1,
                                         ![j].updated_at = @ + 1]
       ELSE book_processing_jobs
  /\ wpc' = [wpc EXCEPT ![j][w] = "resolved"]
  /\ UNCHANGED <<otherVars, books, document_chunks, document_chunks_staging, fileVars, poolFree,
                 coordVars, wpage, wbatch, joinErr, histVars>>

\* the UPDATE of the .then callback fails
WorkerThenFail(j, w) ==
  /\ wpc[j][w] = "then"
  /\ Reject(j, w, "update")
  /\ UNCHANGED <<otherVars, dbVars, fileVars, coordVars, wpage, wbatch, histVars>>


\* --------------------------------------------------------- commitToProduction
\* variant: the join resolves as soon as one worker promise has resolved
AllResolved_Any(j) == \E w \in WorkerIds : wpc[j][w] = "resolved"

AllResolved(j) == \A w \in WorkerIds : wpc[j][w] = "resolved"

\* await Promise.all(...) resolved; commitToProduction: await pool.connect()
CommitConnect(j) ==
  /\ cpc[j] = "await"
  /\ AllResolved(j)
  /\ poolFree > 0
  /\ poolFree' = poolFree - 1
  /\ cpc' = [cpc EXCEPT ![j] = "commit_txn"]
  /\ UNCHANGED <<otherVars, dbVars, fileVars, cerr, reported, workerVars, histVars>>

CommitConnectFail(j) ==
  /\ cpc[j] = "await"
  /\ AllResolved(j)
  /\ cpc' = [cpc EXCEPT ![j] = "catch"]
  /\ cerr' = [cerr EXCEPT ![j] = "connect"]
  /\ UNCHANGED <<otherVars, dbVars, fileVars, poolFree, reported, workerVars, histVars>>

\* INSERT INTO document_chunks ... SELECT ... FROM document_chunks_staging
\* WHERE job_id = jobId: the rows the statement copies
\* variant: the INSERT..SELECT copies only the staged rows of page 1
MovedChunks_FirstPage(j) ==
  LET src == BagWhere(StagingOf(j), LAMBDA r : r.page_number = 1) IN
  [t \in {ChunkRow(r) : r \in DOMAIN src} |-> src[CHOOSE r \in DOMAIN src : ChunkRow(r) = t]]

MovedChunks(j) ==
  LET src == StagingOf(j) IN
  [t \in {ChunkRow(r) : r \in DOMAIN src} |->
     LET from == {r \in DOMAIN src : ChunkRow(r) = t}
     IN src[CHOOSE r \in from : TRUE] * Cardinality(from)]

\* BEGIN; INSERT..SELECT; DELETE staging; UPDATE books; UPDATE jobs; COMMIT
\* document_chunks.book_id REFERENCES books(id): copied rows need the book row
CommitTxn(j) ==
  /\ cpc[j] = "commit_txn"
  /\ DOMAIN StagingOf(j) # {} => j \in DOMAIN books
  /\ document_chunks' = document_chunks (+) MovedChunks(j)
  /\ document_chunks_staging' =
       BagWhere(document_chunks_staging, LAMBDA r : r.job_id # j)
  /\ books' = IF j \in DOMAIN books
              THEN [books EXCEPT ![j].processing_status = "complete"]
              ELSE books
  /\ book_processing_jobs' =
       IF j \in DOMAIN book_processing_jobs
       THEN [book_processing_jobs EXCEPT ![j].status = "complete",
                                         ![j].updated_at = @ + 1]
       ELSE book_processing_jobs
  /\ cpc' = [cpc EXCEPT ![j] = "commit_unlink"]
  /\ UNCHANGED <<otherVars, fileVars, poolFree, cerr, reported, workerVars, histVars>>

\* variant: the failing commit leaves the rows it had copied (no ROLLBACK)
CommitTxnFail_NoRollback(j) ==
  /\ cpc[j] = "commit_txn"
  /\ BookExists(j)
  /\ document_chunks' = document_chunks (+) MovedChunks(j)
  /\ poolFree' = poolFree + 1
  /\ cpc' = [cpc EXCEPT ![j] = "catch"]
  /\ cerr' = [cerr EXCEPT ![j] = "commit"]
  /\ UNCHANGED <<otherVars, books, book_processing_jobs, document_chunks_staging, fileVars,
                 reported, workerVars, histVars>>

\* a statement of the commit transaction fails: ROLLBACK, release, rethrow
CommitTxnFail(j) ==
  /\ cpc[j] = "commit_txn"
  /\ poolFree' = poolFree + 1
  /\ cpc' = [cpc EXCEPT ![j] = "catch"]
  /\ cerr' = [cerr EXCEPT ![j] = "commit"]
  /\ UNCHANGED <<otherVars, dbVars, fileVars, reported, workerVars, histVars>>

\* fs.unlink(pdfPath); both clients are released; "processing complete" logged
CommitUnlink(j) ==
  /\ cpc[j] = "commit_unlink"
  /\ pdfFile' = [pdfFile EXCEPT ![j] = FALSE]
  /\ poolFree' = poolFree + 2
  /\ cpc' = [cpc EXCEPT ![j] = "ended"]
  /\ reported' = [reported EXCEPT ![j] = "complete"]
  /\ UNCHANGED <<otherVars, dbVars, pdf, pageCache, cerr, workerVars, histVars>>

\* ------------------------------------- processBookInBackground: catch (error)
\* entered when Promise.all rejected or commitToProduction threw
\* UPDATE books SET processing_status = 'failed', error_message = $1
FailBooks(j) ==
  LET error == IF cpc[j] = "await" THEN joinErr[j] ELSE cerr[j] IN
  /\ \/ cpc[j] = "await" /\ joinErr[j] # NoErr
     \/ cpc[j] = "catch"
  /\ cerr' = [cerr EXCEPT ![j] = error]
  /\ books' = IF j \in DOMAIN books
              THEN [books EXCEPT ![j] = [processing_status |-> "failed",
                                         error_message |-> error]]
              ELSE books
  /\ cpc' = [cpc EXCEPT ![j] = "fail_jobs"]
  /\ reported' = [reported EXCEPT ![j] = "failed"]
  /\ UNCHANGED <<otherVars, book_processing_jobs, document_chunks, document_chunks_staging,
                 fileVars, poolFree, workerVars, histVars>>

\* UPDATE book_processing_jobs SET status = 'failed', error_message = $1,
\* updated_at = NOW()
FailJobs(j) ==
  /\ cpc[j] = "fail_jobs"
  /\ book_processing_jobs' =
       IF j \in DOMAIN book_processing_jobs
       THEN [book_processing_jobs EXCEPT ![j].status = "failed",
                                         ![j].error_message = cerr[j],
                                         ![j].updated_at = @ + 1]
       ELSE book_processing_jobs
  /\ cpc' = [cpc EXCEPT ![j] = "fail_staging"]
  /\ UNCHANGED <<otherVars, books, document_chunks, document_chunks_staging, fileVars, poolFree,
                 cerr, reported, workerVars, histVars>>

\* variant: the clean-up deletes the staging rows of every job (no WHERE)
FailStaging_EveryJob(j) ==
  /\ cpc[j] = "fail_staging"
  /\ document_chunks_staging' = EmptyBag
  /\ cpc' = [cpc EXCEPT ![j] = "fail_unlink"]
  /\ UNCHANGED <<otherVars, books, book_processing_jobs, document_chunks, fileVars, poolFree,
                 cerr, reported, workerVars, histVars>>

\* DELETE FROM document_chunks_staging WHERE job_id = $1
FailStaging(j) ==
  /\ cpc[j] = "fail_staging"
  /\ document_chunks_staging' =
       BagWhere(document_chunks_staging, LAMBDA r : r.job_id # j)
  /\ cpc' = [cpc EXCEPT ![j] = "fail_unlink"]
  /\ UNCHANGED <<otherVars, books, book_processing_jobs, document_chunks, fileVars, poolFree,
                 cerr, reported, workerVars, histVars>>

\* fs.unlink(pdfPath); finally { client.release() }
FailUnlink(j) ==
  /\ cpc[j] = "fail_unlink"
  /\ pdfFile' = [pdfFile EXCEPT ![j] = FALSE]
  /\ poolFree' = poolFree + 1
  /\ cpc' = [cpc EXCEPT ![j] = "ended"]
  /\ UNCHANGED <<otherVars, dbVars, pdf, pageCache, cerr, reported, workerVars, histVars>>

\* ------------------------------------------- DELETE /books/:id -> deleteBook
\* BEGIN; DELETE FROM document_chunks WHERE book_id; DELETE FROM books WHERE id;
\* COMMIT.  ON DELETE CASCADE removes the book's jobs and their staging rows.
DeleteBook(b) ==
  LET jobsOfBook == {j \in DOMAIN book_processing_jobs :
                       book_processing_jobs[j].book_id = b} IN
  /\ b \in DOMAIN books
  /\ poolFree > 0
  /\ document_chunks' = BagWhere(document_chunks, LAMBDA r : r.book_id # b)
  /\ books' = [k \in DOMAIN books \ {b} |-> books[k]]
  /\ book_processing_jobs' =
       [k \in DOMAIN book_processing_jobs \ jobsOfBook |-> book_processing_jobs[k]]
  /\ document_chunks_staging' =
       BagWhere(document_chunks_staging, LAMBDA r : r.job_id \notin jobsOfBook)
  /\ deleted' = [deleted EXCEPT ![b] = TRUE]
  /\ UNCHANGED <<otherVars, fileVars, poolFree, coordVars, workerVars, stagedEver,
                 embedRequests>>

\* ------------------------------------------------- rag.ts: validateQuery
length(q) == q.lead + q.body + q.trail
trim(q) == Question(0, q.body, 0)

\* the questions a caller may send: empty, white space only, and texts of
\* 1, 1999, 2000 and 2001 characters with and without white space around them
Questions ==
  {Question(lead, body, trail) :
     lead \in {0, 1}, body \in {1, MAX_QUERY_LENGTH - 1, MAX_QUERY_LENGTH, MAX_QUERY_LENGTH + 1},
     trail \in {0, 1}}
  \cup {Question(lead, 0, 0) : lead \in {0, 1, MAX_QUERY_LENGTH + 1}}

\* variant: a question of exactly 2000 characters is too long
validateQuery_Exclusive(query) ==
  IF length(query) = 0 \/ length(trim(query)) = 0
  THEN [valid |-> FALSE, error |-> "Query cannot be empty"]
  ELSE IF length(query) >= MAX_QUERY_LENGTH
       THEN [valid |-> FALSE, error |-> "Query is too long (max 2000 characters)"]
       ELSE [valid |-> TRUE, error |-> NoErr]

validateQuery(query) ==
  IF length(query) = 0 \/ length(trim(query)) = 0
  THEN [valid |-> FALSE, error |-> "Query cannot be empty"]
  ELSE IF length(query) > MAX_QUERY_LENGTH
       THEN [valid |-> FALSE, error |-> "Query is too long (max 2000 characters)"]
       ELSE [valid |-> TRUE, error |-> NoErr]

\* -------------------------------------------------- rag.ts: processQuery
NO_DOCUMENTS_ANSWER ==
  "I apologize, but I don't have any documents in my knowledge base yet."
NO_RELEVANT_ANSWER ==
  "I apologize, but I couldn't find any relevant information in my knowledge base to answer your question."
FALLBACK_ANSWER == "I apologize, but I encountered an error generating a response."
GENERATED_ANSWER == "completion.choices[0].message.content"
NoDocumentsResponse ==
  [answer |-> NO_DOCUMENTS_ANSWER, citations |-> <<>>, hasRelevantDocs |-> FALSE]
NoRelevantResponse ==
  [answer |-> NO_RELEVANT_ANSWER, citations |-> <<>>, hasRelevantDocs |-> FALSE]

\* committed chunks the corpus of a question may hold, of two books whose
\* titles differ by a suffix, and the title column of their rows
TitleOf == (1 :> "PLC Basics") @@ (2 :> "PLC Basics-1")
CorpusRows ==
  {[book_id |-> 1, page_number |-> 1, chunk_index |-> 0],
   [book_id |-> 1, page_number |-> 1, chunk_index |-> 1],
   [book_id |-> 1, page_number |-> 11, chunk_index |-> 0],
   [book_id |-> 2, page_number |-> 1, chunk_index |-> 0]}
Corpora == {EmptyBag, SetToBag(CorpusRows),
            SetToBag({r \in CorpusRows : r.book_id = 2})}
\* cosine distances in hundredths: below, at and just above the threshold
Distances == {SIMILARITY_THRESHOLD - 20, SIMILARITY_THRESHOLD, SIMILARITY_THRESHOLD + 1}

\* searchSimilarDocuments: rows of document_chunks (those of the topic), each
\* once, ORDER BY distance LIMIT topK
SearchResult(r, d) ==
  [id |-> r, book_title |-> TitleOf[r.book_id], page_number |-> r.page_number,
   distance |-> d]
SearchOutcomes ==
  LET rows == {SearchResult(r, d) : r \in DOMAIN document_chunks, d \in Distances}
      most == Min(MaxResults, Min(TOP_K, BagCardinality(document_chunks)))
  IN {res \in UNION {[1..n -> rows] : n \in 0..most} :
        /\ \A a, b \in DOMAIN res : a < b => res[a].distance <= res[b].distance
        /\ \A a, b \in DOMAIN res : a # b => res[a].id # res[b].id}

\* variant: a passage at exactly the threshold is not relevant
relevantDocs_Below(results) ==
  SelectSeq(results, LAMBDA result : result.distance < SIMILARITY_THRESHOLD)

relevantDocs(results) ==
  SelectSeq(results, LAMBDA result : result.distance <= SIMILARITY_THRESHOLD)

\* `${doc.metadata.book_title}-${doc.metadata.page_number}`
CitationKey(doc) == doc.book_title \o "-" \o ToString(doc.page_number)
Citation(doc) == [book_title |-> doc.book_title, page_number |-> doc.page_number]

\* citationsMap after the forEach, as its entries in insertion order
RECURSIVE CitationsLoop(_, _, _)
CitationsLoop(docs, k, citationsMap) ==
  IF k > Len(docs) THEN citationsMap
  ELSE IF \E e \in DOMAIN citationsMap : citationsMap[e].key = CitationKey(docs[k])
       THEN CitationsLoop(docs, k + 1, citationsMap)
       ELSE CitationsLoop(docs, k + 1,
                          Append(citationsMap, [key |-> CitationKey(docs[k]),
                                                value |-> Citation(docs[k])]))

\* variant: one citation per passage, never merged
Citations_PerPassage(docs) == [k \in DOMAIN docs |-> Citation(docs[k])]

\* Array.from(citationsMap.values())
Citations(docs) ==
  LET citationsMap == CitationsLoop(docs, 1, <<>>)
  IN [e \in DOMAIN citationsMap |-> citationsMap[e].value]

\* ------------------------------------ chat.ts: POST /topics/:id/messages
\* validateQuery(content); res.status(400) when it is not valid
Receive(q) ==
  /\ qpc = "idle"
  /\ content' = q
  /\ IF ~validateQuery(q).valid
     THEN /\ httpResponse' = [NoHttpResponse EXCEPT !.status = 400,
                                                    !.error = validateQuery(q).error]
          /\ qpc' = "done"
     ELSE /\ qpc' = "save_user"
          /\ UNCHANGED httpResponse
  /\ UNCHANGED <<searchResults, ragResponse, completionRequests, qerr, messages,
                 dbVars, pipelineVars, syncVars, unitVars>>

\* catch (error): res.status(500).json({ error: 'Failed to process message' })
InternalError(at) ==
  /\ qerr' = at
  /\ httpResponse' = [NoHttpResponse EXCEPT !.status = 500,
                                            !.error = "Failed to process message"]
  /\ qpc' = "done"

\* INSERT INTO messages (topic_id, role, content, citations): the user message
SaveUserMessage ==
  /\ qpc = "save_user"
  /\ messages' = Append(messages, [role |-> "user", citations |-> <<>>])
  /\ qpc' = "has_documents"
  /\ UNCHANGED <<content, searchResults, ragResponse, completionRequests, qerr,
                 httpResponse, dbVars, pipelineVars, syncVars, unitVars>>

SaveUserMessageFail ==
  /\ qpc = "save_user"
  /\ InternalError("save_user")
  /\ UNCHANGED <<content, searchResults, ragResponse, completionRequests, messages,
                 dbVars, pipelineVars, syncVars, unitVars>>

\* hasDocuments(): SELECT COUNT(*) FROM document_chunks
HasDocuments ==
  /\ qpc = "has_documents"
  /\ IF BagCardinality(document_chunks) > 0
     THEN /\ qpc' = "search"
          /\ UNCHANGED ragResponse
     ELSE /\ ragResponse' = NoDocumentsResponse
          /\ qpc' = "save_assistant"
  /\ UNCHANGED <<content, searchResults, completionRequests, qerr, httpResponse,
                 messages, dbVars, pipelineVars, syncVars, unitVars>>

\* the COUNT query throws: hasDocuments catches it and returns false
HasDocumentsFail ==
  /\ qpc = "has_documents"
  /\ ragResponse' = NoDocumentsResponse
  /\ qpc' = "save_assistant"
  /\ UNCHANGED <<content, searchResults, completionRequests, qerr, httpResponse,
                 messages, dbVars, pipelineVars, syncVars, unitVars>>

\* searchSimilarDocuments resolved; filter; refuse, or build the context and
\* the citations and call openai.chat.completions.create
Search(res) ==
  /\ qpc = "search"
  /\ searchResults' = res
  /\ IF Len(relevantDocs(res)) = 0
     THEN /\ ragResponse' = NoRelevantResponse
          /\ qpc' = "save_assistant"
          /\ UNCHANGED completionRequests
     ELSE /\ completionRequests' = completionRequests + 1
          /\ qpc' = "completion"
          /\ UNCHANGED ragResponse
  /\ UNCHANGED <<content, qerr, httpResponse, messages, dbVars, pipelineVars, syncVars, unitVars>>

\* generateEmbedding(query) rejects inside searchSimilarDocuments
EmbedQuestionFail ==
  /\ qpc = "search"
  /\ InternalError("embedding")
  /\ UNCHANGED <<content, searchResults, ragResponse, completionRequests, messages,
                 dbVars, pipelineVars, syncVars, unitVars>>

\* the similarity SELECT rejects
SearchFail ==
  /\ qpc = "search"
  /\ InternalError("search")
  /\ UNCHANGED <<content, searchResults, ragResponse, completionRequests, messages,
                 dbVars, pipelineVars, syncVars, unitVars>>

\* the completion resolved, with or without message content
Completion(text) ==
  /\ qpc = "completion"
  /\ ragResponse' = [answer |-> IF text = "" THEN FALLBACK_ANSWER ELSE text,
                     citations |-> Citations(relevantDocs(searchResults)),
                     hasRelevantDocs |-> TRUE]
  /\ qpc' = "save_assistant"
  /\ UNCHANGED <<content, searchResults, completionRequests, qerr, httpResponse,
                 messages, dbVars, pipelineVars, syncVars, unitVars>>

\* the completion rejects: processQuery logs and rethrows
CompletionFail ==
  /\ qpc = "completion"
  /\ InternalError("completion")
  /\ UNCHANGED <<content, searchResults, ragResponse, completionRequests, messages,
                 dbVars, pipelineVars, syncVars, unitVars>>

\* INSERT INTO messages: the assistant message; res.json(...)
SaveAssistantMessage ==
  /\ qpc = "save_assistant"
  /\ messages' = Append(messages, [role |-> "assistant",
                                   citations |-> ragResponse.citations])
  /\ httpResponse' = [NoHttpResponse EXCEPT !.status = 200,
                                            !.answer = ragResponse.answer,
                                            !.citations = ragResponse.citations]
  /\ qpc' = "done"
  /\ UNCHANGED <<content, searchResults, ragResponse, completionRequests, qerr,
                 dbVars, pipelineVars, syncVars, unitVars>>

SaveAssistantMessageFail ==
  /\ qpc = "save_assistant"
  /\ InternalError("save_assistant")
  /\ UNCHANGED <<content, searchResults, ragResponse, completionRequests, messages,
                 dbVars, pipelineVars, syncVars, unitVars>>

\* a question is asked of a corpus committed by earlier ingestions
AskInit ==
  /\ \E corpus \in Corpora :
       LET owners == {r.book_id : r \in DOMAIN corpus} IN
       /\ document_chunks = corpus
       /\ books = [b \in owners |->
                     [processing_status |-> "complete", error_message |-> NoErr]]
       /\ book_processing_jobs =
            [b \in owners |->
               [book_id |-> b, total_chunks |-> WORKERS, completed_chunks |-> WORKERS,
                status |-> "complete", error_message |-> NoErr, updated_at |-> WORKERS + 1]]
  /\ document_chunks_staging = EmptyBag
  /\ ProcessStart /\ AskIdle /\ SyncIdle /\ UnitsIdle

AskNext ==
  \/ \E q \in Questions : Receive(q)
  \/ SaveUserMessage
  \/ SaveUserMessageFail
  \/ HasDocuments
  \/ HasDocumentsFail
  \/ qpc = "search" /\ \E res \in SearchOutcomes : Search(res)
  \/ EmbedQuestionFail
  \/ SearchFail
  \/ \E text \in {GENERATED_ANSWER, ""} : Completion(text)
  \/ CompletionFail
  \/ SaveAssistantMessage
  \/ SaveAssistantMessageFail

AskSpec == AskInit /\ [][AskNext]_vars

\* ------------------------------------------------ pdfProcessor.ts: processPDF
\* const bookId = uuidv4(): an id no other book has
syncBookId == 2
\* the chunks of a PDF with text, by page number, in the order of the pages
PagedChunkLists ==
  {c \in UNION {[1..n -> 1..2] : n \in 1..MaxSyncChunks} :
     /\ c[1] = 1
     /\ \A k \in DOMAIN c : k > 1 => c[k] \in {c[k - 1], c[k - 1] + 1}}

\* a statement or call inside the try block throws: control goes to catch
Throw(error) ==
  /\ perr' = error
  /\ ppc' = "catch"

\* client = await pool.connect(); BEGIN
PdfConnect ==
  /\ ppc = "idle"
  /\ poolFree > 0
  /\ poolFree' = poolFree - 1
  /\ txn' = [book |-> "absent", chunks |-> {}]
  /\ ppc' = "insert_book"
  /\ UNCHANGED <<pagedChunks, totalChunksProcessed, perr, processingResult,
                 dbVars, pdf, pdfFile, pageCache, cpc, cerr, joinErr, wpc, wpage, wbatch,
                 reported, histVars, askVars, unitVars>>

\* pool.connect() rejects: client stays undefined
PdfConnectFail ==
  /\ ppc = "idle"
  /\ Throw("connect")
  /\ UNCHANGED <<txn, pagedChunks, totalChunksProcessed, processingResult,
                 dbVars, pipelineVars, askVars, unitVars>>

\* INSERT INTO books (..., processing_status) VALUES (..., 'pending')
PdfInsertBook ==
  /\ ppc = "insert_book"
  /\ txn' = [txn EXCEPT !.book = "pending"]
  /\ ppc' = "update_processing"
  /\ UNCHANGED <<pagedChunks, totalChunksProcessed, perr, processingResult,
                 dbVars, pipelineVars, askVars, unitVars>>

PdfInsertBookFail ==
  /\ ppc = "insert_book"
  /\ Throw("insert_book")
  /\ UNCHANGED <<txn, pagedChunks, totalChunksProcessed, processingResult,
                 dbVars, pipelineVars, askVars, unitVars>>

\* UPDATE books SET processing_status = 'processing'
PdfMarkProcessing ==
  /\ ppc = "update_processing"
  /\ txn' = [txn EXCEPT !.book = "processing"]
  /\ ppc' = "extract"
  /\ UNCHANGED <<pagedChunks, totalChunksProcessed, perr, processingResult,
                 dbVars, pipelineVars, askVars, unitVars>>

PdfMarkProcessingFail ==
  /\ ppc = "update_processing"
  /\ Throw("update_processing")
  /\ UNCHANGED <<txn, pagedChunks, totalChunksProcessed, processingResult,
                 dbVars, pipelineVars, askVars, unitVars>>

\* extractPagesFromPDF found pages with text; chunkPagedText
PdfExtract(c) ==
  /\ ppc = "extract"
  /\ pagedChunks' = c
  /\ ppc' = "embed"
  /\ UNCHANGED <<txn, totalChunksProcessed, perr, processingResult,
                 dbVars, pipelineVars, askVars, unitVars>>

\* pages.length === 0: throw new Error('No text content found in PDF...')
PdfExtractEmpty ==
  /\ ppc = "extract"
  /\ Throw("No text content found in PDF")
  /\ UNCHANGED <<txn, pagedChunks, totalChunksProcessed, processingResult,
                 dbVars, pipelineVars, askVars, unitVars>>

\* pdf-parse throws
PdfExtractFail ==
  /\ ppc = "extract"
  /\ Throw("PDF extraction failed")
  /\ UNCHANGED <<txn, pagedChunks, totalChunksProcessed, processingResult,
                 dbVars, pipelineVars, askVars, unitVars>>

\* const embedding = await generateEmbedding(chunk.text)
PdfEmbed ==
  /\ ppc = "embed"
  /\ ppc' = "insert_chunk"
  /\ UNCHANGED <<txn, pagedChunks, totalChunksProcessed, perr, processingResult,
                 dbVars, pipelineVars, askVars, unitVars>>

PdfEmbedFail ==
  /\ ppc = "embed"
  /\ Throw("embed")
  /\ UNCHANGED <<txn, pagedChunks, totalChunksProcessed, processingResult,
                 dbVars, pipelineVars, askVars, unitVars>>

\* client.query(INSERT INTO document_chunks ...) with globalChunkIndex++
PdfInsertChunk ==
  /\ ppc = "insert_chunk"
  /\ txn' = [txn EXCEPT !.chunks =
               @ \cup {[book_id |-> syncBookId,
                        page_number |-> pagedChunks[totalChunksProcessed + 1],
                        chunk_index |-> totalChunksProcessed]}]
  /\ ppc' = "add_chunk"
  /\ UNCHANGED <<pagedChunks, totalChunksProcessed, perr, processingResult,
                 dbVars, pipelineVars, askVars, unitVars>>

PdfInsertChunkFail ==
  /\ ppc = "insert_chunk"
  /\ Throw("insert_chunk")
  /\ UNCHANGED <<txn, pagedChunks, totalChunksProcessed, processingResult,
                 dbVars, pipelineVars, askVars, unitVars>>

\* await addDocumentChunk(...) resolved (the write goes to the vector store,
\* not through the transaction's client); totalChunksProcessed++
PdfAddChunk ==
  /\ ppc = "add_chunk"
  /\ totalChunksProcessed' = totalChunksProcessed + 1
  /\ ppc' = IF totalChunksProcessed + 1 < Len(pagedChunks) THEN "embed" ELSE "mark_complete"
  /\ UNCHANGED <<txn, pagedChunks, perr, processingResult,
                 dbVars, pipelineVars, askVars, unitVars>>

PdfAddChunkFail ==
  /\ ppc = "add_chunk"
  /\ Throw("add_chunk")
  /\ UNCHANGED <<txn, pagedChunks, totalChunksProcessed, processingResult,
                 dbVars, pipelineVars, askVars, unitVars>>

\* UPDATE books SET processing_status = 'complete'
PdfMarkComplete ==
  /\ ppc = "mark_complete"
  /\ txn' = [txn EXCEPT !.book = "complete"]
  /\ ppc' = "commit"
  /\ UNCHANGED <<pagedChunks, totalChunksProcessed, perr, processingResult,
                 dbVars, pipelineVars, askVars, unitVars>>

PdfMarkCompleteFail ==
  /\ ppc = "mark_complete"
  /\ Throw("update_complete")
  /\ UNCHANGED <<txn, pagedChunks, totalChunksProcessed, processingResult,
                 dbVars, pipelineVars, askVars, unitVars>>

\* COMMIT: the book row and its chunk rows become visible; return; release
PdfCommit ==
  /\ ppc = "commit"
  /\ books' = (syncBookId :> [processing_status |-> txn.book, error_message |-> NoErr])
              @@ books
  /\ document_chunks' = document_chunks (+) SetToBag(txn.chunks)
  /\ txn' = NoTxn
  /\ processingResult' = [success |-> TRUE, chunksProcessed |-> totalChunksProcessed,
                          error |-> NoErr, returned |-> TRUE]
  /\ poolFree' = poolFree + 1
  /\ ppc' = "returned"
  /\ UNCHANGED <<pagedChunks, totalChunksProcessed, perr, book_processing_jobs,
                 document_chunks_staging, pdf, pdfFile, pageCache, cpc, cerr, joinErr,
                 wpc, wpage, wbatch, reported, histVars, askVars, unitVars>>

PdfCommitFail ==
  /\ ppc = "commit"
  /\ Throw("commit")
  /\ UNCHANGED <<txn, pagedChunks, totalChunksProcessed, processingResult,
                 dbVars, pipelineVars, askVars, unitVars>>

\* catch: if (client) await client.query('ROLLBACK')
PdfRollback ==
  /\ ppc = "catch"
  /\ txn' = NoTxn
  /\ ppc' = "mark_failed"
  /\ UNCHANGED <<pagedChunks, totalChunksProcessed, perr, processingResult,
                 dbVars, pipelineVars, askVars, unitVars>>

\* the ROLLBACK itself rejects (connection lost, the server aborts the
\* transaction): the error leaves processPDF; finally: client.release()
PdfRollbackFail ==
  /\ ppc = "catch"
  /\ perr # "connect"
  /\ txn' = NoTxn
  /\ poolFree' = poolFree + 1
  /\ ppc' = "rejected"
  /\ UNCHANGED <<pagedChunks, totalChunksProcessed, perr, processingResult,
                 dbVars, pdf, pdfFile, pageCache, cpc, cerr, joinErr, wpc, wpage, wbatch,
                 reported, histVars, askVars, unitVars>>

\* pool.query(UPDATE books SET processing_status = 'failed', error_message = $2
\* WHERE id = $3), its own failure only logged; return success: false;
\* finally: client.release()
PdfMarkFailed ==
  /\ ppc = "mark_failed"
  /\ books' = IF syncBookId \in DOMAIN books
              THEN [books EXCEPT ![syncBookId] =
                      [processing_status |-> "failed", error_message |-> perr]]
              ELSE books
  /\ processingResult' = [success |-> FALSE, chunksProcessed |-> 0, error |-> perr,
                          returned |-> TRUE]
  /\ poolFree' = IF perr = "connect" THEN poolFree ELSE poolFree + 1
  /\ ppc' = "returned"
  /\ UNCHANGED <<txn, pagedChunks, totalChunksProcessed, perr, book_processing_jobs,
                 document_chunks, document_chunks_staging, pdf, pdfFile, pageCache,
                 cpc, cerr, joinErr, wpc, wpage, wbatch, reported, histVars, askVars, unitVars>>

SyncNext ==
  \/ PdfConnect
  \/ PdfConnectFail
  \/ PdfInsertBook
  \/ PdfInsertBookFail
  \/ PdfMarkProcessing
  \/ PdfMarkProcessingFail
  \/ ppc = "extract" /\ \E c \in PagedChunkLists : PdfExtract(c)
  \/ PdfExtractEmpty
  \/ PdfExtractFail
  \/ PdfEmbed
  \/ PdfEmbedFail
  \/ PdfInsertChunk
  \/ PdfInsertChunkFail
  \/ PdfAddChunk
  \/ PdfAddChunkFail
  \/ PdfMarkComplete
  \/ PdfMarkCompleteFail
  \/ PdfCommit
  \/ PdfCommitFail
  \/ PdfRollback
  \/ PdfRollbackFail
  \/ PdfMarkFailed

SyncSpec == Init /\ [][SyncNext]_vars

\* ------------------------------------------------------------ specification
WorkerNext(j, w) ==
  \/ WorkerConnect(j, w)
  \/ WorkerConnectFail(j, w)
  \/ RangeDone(j, w)
  \/ ProcessPageStep(j, w)
  \/ ExtractFail(j, w)
  \/ ExtractRaced(j, w)
  \/ Embed(j, w)
  \/ EmbedFail(j, w)
  \/ StageInsert(j, w)
  \/ StageInsertFail(j, w)
  \/ WorkerThen(j, w)
  \/ WorkerThenFail(j, w)

CoordNext(j) ==
  \/ CoordConnect(j)
  \/ CoordConnectFail(j)
  \/ CommitConnect(j)
  \/ CommitConnectFail(j)
  \/ CommitTxn(j)
  \/ CommitTxnFail(j)
  \/ CommitUnlink(j)
  \/ FailBooks(j)
  \/ FailJobs(j)
  \/ FailStaging(j)
  \/ FailUnlink(j)

Next ==
  \/ \E j \in JobIds, buffer \in PdfFiles : Upload(j, buffer)
  \/ \E j \in JobIds, written \in BOOLEAN : UploadFail(j, written)
  \/ \E j \in JobIds : CoordNext(j)
  \/ \E j \in JobIds, w \in WorkerIds : WorkerNext(j, w)
  \/ \E b \in JobIds : DeleteBook(b)

Spec == Init /\ [][Next]_vars

TypeOK ==
  /\ DOMAIN books \subseteq JobIds
  /\ DOMAIN book_processing_jobs \subseteq JobIds
  /\ poolFree \in 0..PoolMax
  /\ IsABag(document_chunks)
  /\ IsABag(document_chunks_staging)


\* ------------------------------------------------ processPage, call by call
\* A page text with white space in it is the sequence of the lengths of its
\* runs of characters, alternately non-space and space.  extractSinglePage
\* trims, so the first and the last run are non-space; the empty page is <<>>.
RECURSIVE TextLen(_)
TextLen(text) == IF text = <<>> THEN 0 ELSE text[1] + TextLen(Tail(text))
\* index (from 0) of the first character of run k
RunStart(text, k) == TextLen(SubSeq(text, 1, k - 1))
\* the run that holds the character at index i
RunIndex(text, i) ==
  CHOOSE k \in DOMAIN text : RunStart(text, k) <= i /\ i < RunStart(text, k) + text[k]
\* index of the first non-space character at or after index s
FirstText(text, s) ==
  LET k == RunIndex(text, s) IN IF k % 2 = 1 THEN s ELSE RunStart(text, k + 1)
\* index of the last non-space character before index e
LastText(text, e) ==
  LET k == RunIndex(text, e - 1) IN IF k % 2 = 1 THEN e - 1 ELSE RunStart(text, k) - 1
\* text.substring(s, e).trim().length
TrimmedLength(text, s, e) ==
  LET first == FirstText(text, s)
      last == LastText(text, e)
  IN IF first > last THEN 0 ELSE last - first + 1

PageLengths(texts) == [p \in DOMAIN texts |-> TextLen(texts[p])]

\* (pageText.substring(s, e) + '\n\n' + lookaheadText).trim().length, where
\* look is what peekAhead returned; without lookahead the window alone
ChunkTextLength(texts, pageNum, s, e, look) ==
  IF look.len = 0
  THEN TrimmedLength(texts[pageNum], s, e)
  ELSE LET last == look.pieces[Len(look.pieces)]
           trailing == last.chars - 1 - LastText(texts[last.page], last.chars)
           first == FirstText(texts[pageNum], s)
       IN IF first < e
          THEN (e - first) + 2 + (look.len - trailing)
          ELSE look.len - trailing

\* the page texts the calls are made on
PageTextChoices ==
  {<<>>, <<MIN_CHUNK_LEN>>, <<MIN_CHUNK_LEN + 1>>,
   <<CHUNK_SIZE - OVERLAP + MIN_CHUNK_LEN>>, <<900>>, <<LOOKAHEAD_TARGET - 1>>,
   <<700, 1200, 700>>, <<LOOKAHEAD_TARGET - 10, 20, 500>>}
ChunkerPdfs == UNION {[1..n -> PageTextChoices] : n \in 1..MaxPages}

notChunkerVars == <<dbVars, pipelineVars, askVars, syncVars, extractVars, jobsAt, splitterVars>>

\* processPage(pdfPath, pageNum, totalPages) up to the while loop; the pages
\* are taken in page order, each once, as the page loops of the workers do
ProcessPageCall(pageNum) ==
  /\ pageLoop.pc \in {"idle", "returned"}
  /\ pageNum = pageLoop.pageNum + 1
  /\ cutWindows' = <<>>
  /\ pageLoop' =
       [pc |-> IF TextLen(pageTexts[pageNum]) = 0 THEN "returned" ELSE "loop",
        pageNum |-> pageNum, startIndex |-> 0, chunkIndex |-> 0, chunks |-> <<>>]
  /\ UNCHANGED <<pageTexts, returnedChunks, notChunkerVars>>

\* variant: a window of exactly the minimum length is kept
WindowStep_KeepMinimum ==
  LET pageNum == pageLoop.pageNum
      pageText == pageTexts[pageNum]
      totalPages == Len(pageTexts)
      startIndex == pageLoop.startIndex
      endIndex == Min(startIndex + CHUNK_SIZE, TextLen(pageText))
      isLastChunk == startIndex + CHUNK_SIZE >= TextLen(pageText)
      look == IF isLastChunk /\ pageNum < totalPages
              THEN peekAhead(PageLengths(pageTexts), pageNum + 1, totalPages,
                             LOOKAHEAD_TARGET)
              ELSE [len |-> 0, pages |-> {}, pieces |-> <<>>]
      trimmed == ChunkTextLength(pageTexts, pageNum, startIndex, endIndex, look)
      pushed == trimmed >= MIN_CHUNK_LEN
  IN
  /\ pageLoop.pc = "loop"
  /\ startIndex < TextLen(pageText)
  /\ cutWindows' = Append(cutWindows,
       [startIndex |-> startIndex, endIndex |-> endIndex, isLastChunk |-> isLastChunk,
        lookahead |-> look.len, pieces |-> look.pieces, trimmed |-> trimmed,
        pushed |-> pushed])
  /\ pageLoop' =
       [pageLoop EXCEPT
          !.chunks = IF pushed
                     THEN Append(@, [pageNumber |-> pageNum,
                                     chunkIndex |-> pageLoop.chunkIndex,
                                     textLength |-> trimmed,
                                     startIndex |-> startIndex,
                                     lookahead |-> look.len])
                     ELSE @,
          !.chunkIndex = IF pushed THEN @ + 1 ELSE @,
          !.startIndex = @ + CHUNK_SIZE - OVERLAP]
  /\ UNCHANGED <<pageTexts, returnedChunks, notChunkerVars>>

\* variant: the next window starts where this one ends (no overlap)
WindowStep_NoOverlap ==
  LET pageNum == pageLoop.pageNum
      pageText == pageTexts[pageNum]
      totalPages == Len(pageTexts)
      startIndex == pageLoop.startIndex
      endIndex == Min(startIndex + CHUNK_SIZE, TextLen(pageText))
      isLastChunk == startIndex + CHUNK_SIZE >= TextLen(pageText)
      look == IF isLastChunk /\ pageNum < totalPages
              THEN peekAhead(PageLengths(pageTexts), pageNum + 1, totalPages,
                             LOOKAHEAD_TARGET)
              ELSE [len |-> 0, pages |-> {}, pieces |-> <<>>]
      trimmed == ChunkTextLength(pageTexts, pageNum, startIndex, endIndex, look)
      pushed == trimmed > MIN_CHUNK_LEN
  IN
  /\ pageLoop.pc = "loop"
  /\ startIndex < TextLen(pageText)
  /\ cutWindows' = Append(cutWindows,
       [startIndex |-> startIndex, endIndex |-> endIndex, isLastChunk |-> isLastChunk,
        lookahead |-> look.len, pieces |-> look.pieces, trimmed |-> trimmed,
        pushed |-> pushed])
  /\ pageLoop' =
       [pageLoop EXCEPT
          !.chunks = IF pushed
                     THEN Append(@, [pageNumber |-> pageNum,
                                     chunkIndex |-> pageLoop.chunkIndex,
                                     textLength |-> trimmed,
                                     startIndex |-> startIndex,
                                     lookahead |-> look.len])
                     ELSE @,
          !.chunkIndex = IF pushed THEN @ + 1 ELSE @,
          !.startIndex = @ + CHUNK_SIZE]
  /\ UNCHANGED <<pageTexts, returnedChunks, notChunkerVars>>

\* variant: chunkIndex counts the windows, not the chunks pushed
WindowStep_CountWindows ==
  LET pageNum == pageLoop.pageNum
      pageText == pageTexts[pageNum]
      totalPages == Len(pageTexts)
      startIndex == pageLoop.startIndex
      endIndex == Min(startIndex + CHUNK_SIZE, TextLen(pageText))
      isLastChunk == startIndex + CHUNK_SIZE >= TextLen(pageText)
      look == IF isLastChunk /\ pageNum < totalPages
              THEN peekAhead(PageLengths(pageTexts), pageNum + 1, totalPages,
                             LOOKAHEAD_TARGET)
              ELSE [len |-> 0, pages |-> {}, pieces |-> <<>>]
      trimmed == ChunkTextLength(pageTexts, pageNum, startIndex, endIndex, look)
      pushed == trimmed > MIN_CHUNK_LEN
  IN
  /\ pageLoop.pc = "loop"
  /\ startIndex < TextLen(pageText)
  /\ cutWindows' = Append(cutWindows,
       [startIndex |-> startIndex, endIndex |-> endIndex, isLastChunk |-> isLastChunk,
        lookahead |-> look.len, pieces |-> look.pieces, trimmed |-> trimmed,
        pushed |-> pushed])
  /\ pageLoop' =
       [pageLoop EXCEPT
          !.chunks = IF pushed
                     THEN Append(@, [pageNumber |-> pageNum,
                                     chunkIndex |-> pageLoop.chunkIndex,
                                     textLength |-> trimmed,
                                     startIndex |-> startIndex,
                                     lookahead |-> look.len])
                     ELSE @,
          !.chunkIndex = @ + 1,
          !.startIndex = @ + CHUNK_SIZE - OVERLAP]
  /\ UNCHANGED <<pageTexts, returnedChunks, notChunkerVars>>

\* one iteration of while (startIndex < pageText.length)
WindowStep ==
  LET pageNum == pageLoop.pageNum
      pageText == pageTexts[pageNum]
      totalPages == Len(pageTexts)
      startIndex == pageLoop.startIndex
      endIndex == Min(startIndex + CHUNK_SIZE, TextLen(pageText))
      isLastChunk == startIndex + CHUNK_SIZE >= TextLen(pageText)
      look == IF isLastChunk /\ pageNum < totalPages
              THEN peekAhead(PageLengths(pageTexts), pageNum + 1, totalPages,
                             LOOKAHEAD_TARGET)
              ELSE [len |-> 0, pages |-> {}, pieces |-> <<>>]
      trimmed == ChunkTextLength(pageTexts, pageNum, startIndex, endIndex, look)
      pushed == trimmed > MIN_CHUNK_LEN
  IN
  /\ pageLoop.pc = "loop"
  /\ startIndex < TextLen(pageText)
  /\ cutWindows' = Append(cutWindows,
       [startIndex |-> startIndex, endIndex |-> endIndex, isLastChunk |-> isLastChunk,
        lookahead |-> look.len, pieces |-> look.pieces, trimmed |-> trimmed,
        pushed |-> pushed])
  /\ pageLoop' =
       [pageLoop EXCEPT
          !.chunks = IF pushed
                     THEN Append(@, [pageNumber |-> pageNum,
                                     chunkIndex |-> pageLoop.chunkIndex,
                                     textLength |-> trimmed,
                                     startIndex |-> startIndex,
                                     lookahead |-> look.len])
                     ELSE @,
          !.chunkIndex = IF pushed THEN @ + 1 ELSE @,
          !.startIndex = @ + CHUNK_SIZE - OVERLAP]
  /\ UNCHANGED <<pageTexts, returnedChunks, notChunkerVars>>

\* the loop condition fails: return chunks
LoopExit ==
  /\ pageLoop.pc = "loop"
  /\ ~(pageLoop.startIndex < TextLen(pageTexts[pageLoop.pageNum]))
  /\ pageLoop' = [pageLoop EXCEPT !.pc = "returned"]
  /\ returnedChunks' = returnedChunks \o pageLoop.chunks
  /\ UNCHANGED <<pageTexts, cutWindows, notChunkerVars>>

ChunkerInit ==
  /\ EmptyDatabase /\ ProcessStart /\ AskIdle /\ SyncIdle
  /\ pageTexts \in ChunkerPdfs
  /\ ChunkerIdle
  /\ ExtractIdle
  /\ PoolIdle
  /\ chunkTextArgs = [text |-> <<>>, chunkSize |-> 0, chunkOverlap |-> 0]
  /\ SplitterIdle

ChunkerNext ==
  \/ \E pageNum \in 1..Len(pageTexts) : ProcessPageCall(pageNum)
  \/ WindowStep
  \/ LoopExit

ChunkerSpec == ChunkerInit /\ [][ChunkerNext]_vars


\* ------------------------------------------- extractSinglePage, call by call
\* the text pdftotext writes for a page, and the content of a file that a
\* pdftotext process has opened (created or truncated) and not yet written
TextOf(pdfPath, pageNum) == <<pdfPath, pageNum>>
EmptyFile == ""
\* `/tmp/extract-page-${Date.now()}-${pageNum}.txt`
TempOutput(now, pageNum) == <<now, pageNum>>
InFlight(c) == calls[c].pc \in {"exec", "writing", "read", "unlink"}

notExtractVars == <<dbVars, pipelineVars, askVars, syncVars, chunkerVars, jobsAt, splitterVars>>

\* extractSinglePage(pdfPath, pageNum) up to its first await: a cache hit
\* returns the cached text, a miss names the output file and starts pdftotext
ExtractCall(c, pdfPath, pageNum) ==
  LET cacheKey == CacheKey(pdfPath, pageNum) IN
  /\ calls[c].pc = "idle"
  /\ IF cacheKey \in DOMAIN cachedText
     THEN /\ calls' = [calls EXCEPT ![c] =
                         [pc |-> "returned", pdfPath |-> pdfPath, pageNum |-> pageNum,
                          tempOutput |-> <<>>, text |-> cachedText[cacheKey]]]
          /\ UNCHANGED pdftotextRuns
     ELSE /\ calls' = [calls EXCEPT ![c] =
                         [pc |-> "exec", pdfPath |-> pdfPath, pageNum |-> pageNum,
                          tempOutput |-> TempOutput(clock, pageNum), text |-> "none"]]
          /\ pdftotextRuns' = [pdftotextRuns EXCEPT ![cacheKey] = @ + 1]
  /\ UNCHANGED <<clock, tmpFiles, cachedText, notExtractVars>>

\* the pdftotext process opens its output file, creating or truncating it
ToolOpen(c) ==
  /\ calls[c].pc = "exec"
  /\ tmpFiles' = (calls[c].tempOutput :> EmptyFile) @@ tmpFiles
  /\ calls' = [calls EXCEPT ![c].pc = "writing"]
  /\ UNCHANGED <<clock, cachedText, pdftotextRuns, notExtractVars>>

\* the process has written the page text and exits; a file that was unlinked
\* in the meantime stays absent
ToolExit(c) ==
  /\ calls[c].pc = "writing"
  /\ tmpFiles' = IF calls[c].tempOutput \in DOMAIN tmpFiles
                 THEN (calls[c].tempOutput :> TextOf(calls[c].pdfPath, calls[c].pageNum))
                      @@ tmpFiles
                 ELSE tmpFiles
  /\ calls' = [calls EXCEPT ![c].pc = "read"]
  /\ UNCHANGED <<clock, cachedText, pdftotextRuns, notExtractVars>>

\* await fs.readFile(tempOutput); pageCache.set(cacheKey, trimmedText); a
\* missing file makes readFile reject, and the call rethrows after finally
ReadFile(c) ==
  LET cacheKey == CacheKey(calls[c].pdfPath, calls[c].pageNum) IN
  /\ calls[c].pc = "read"
  /\ IF calls[c].tempOutput \in DOMAIN tmpFiles
     THEN /\ calls' = [calls EXCEPT ![c].pc = "unlink",
                                    ![c].text = tmpFiles[calls[c].tempOutput]]
          /\ cachedText' = (cacheKey :> tmpFiles[calls[c].tempOutput]) @@ cachedText
     ELSE /\ calls' = [calls EXCEPT ![c].pc = "unlink", ![c].text = "ENOENT"]
          /\ UNCHANGED cachedText
  /\ UNCHANGED <<clock, tmpFiles, pdftotextRuns, notExtractVars>>

\* finally { await fs.unlink(tempOutput).catch(() => {}) }, then return or throw
Unlink(c) ==
  /\ calls[c].pc = "unlink"
  /\ tmpFiles' = [f \in DOMAIN tmpFiles \ {calls[c].tempOutput} |-> tmpFiles[f]]
  /\ calls' = [calls EXCEPT ![c].pc = IF calls[c].text = "ENOENT" THEN "threw" ELSE "returned"]
  /\ UNCHANGED <<clock, cachedText, pdftotextRuns, notExtractVars>>

\* a millisecond passes
Tick ==
  /\ clock < MaxClock
  /\ clock' = clock + 1
  /\ UNCHANGED <<tmpFiles, calls, cachedText, pdftotextRuns, notExtractVars>>

ExtractNext ==
  \/ \E c \in CallerIds, pdfPath \in DocPaths, pageNum \in PageNums :
       ExtractCall(c, pdfPath, pageNum)
  \/ \E c \in CallerIds : ToolOpen(c)
  \/ \E c \in CallerIds : ToolExit(c)
  \/ \E c \in CallerIds : ReadFile(c)
  \/ \E c \in CallerIds : Unlink(c)
  \/ Tick

ExtractSpec == Init /\ [][ExtractNext]_vars


\* ------------------------------------------- the jobs and the connection pool
\* The jobs are interchangeable here, so the state counts the jobs at each
\* position.  pool.connect() has no timeout (database.ts sets none): a caller
\* waits until a client is free.  Every worker finishes its range.
notPoolVars == <<dbVars, pdf, pdfFile, pageCache, cpc, cerr, joinErr, wpc, wpage, wbatch,
                 reported, histVars, askVars, syncVars, chunkerVars, extractVars,
                 splitterVars>>

\* one job moves from position a to position b
MoveJob(a, b) ==
  /\ jobsAt[a] > 0
  /\ jobsAt' = [at \in PoolPositions |->
                  jobsAt[at] - (IF at = a THEN 1 ELSE 0) + (IF at = b THEN 1 ELSE 0)]

\* uploadAndProcessBook committed and started processBookInBackground
PoolUpload ==
  /\ MoveJob(JobAt("idle", 0, 0), JobAt("connect", 0, 0))
  /\ UNCHANGED <<poolFree, notPoolVars>>

\* line 266: const client = await pool.connect(); the workers are created
PoolCoordConnect ==
  /\ poolFree > 0
  /\ poolFree' = poolFree - 1
  /\ MoveJob(JobAt("connect", 0, 0), JobAt("await", WORKERS, 0))
  /\ UNCHANGED notPoolVars

\* line 193: a worker's pool.connect() resolves
PoolWorkerConnect(at) ==
  /\ at.cpc = "await" /\ at.waiting > 0
  /\ poolFree > 0
  /\ poolFree' = poolFree - 1
  /\ MoveJob(at, JobAt("await", at.waiting - 1, at.holding + 1))
  /\ UNCHANGED notPoolVars

\* line 251: a worker is through its range and releases its client
PoolWorkerRelease(at) ==
  /\ at.cpc = "await" /\ at.holding > 0
  /\ poolFree' = poolFree + 1
  /\ MoveJob(at, JobAt("await", at.waiting, at.holding - 1))
  /\ UNCHANGED notPoolVars

\* line 305: Promise.all resolves; commitToProduction asks for a client
PoolAllResolved ==
  /\ MoveJob(JobAt("await", 0, 0), JobAt("commit_connect", 0, 0))
  /\ UNCHANGED <<poolFree, notPoolVars>>

\* line 421: const client = await pool.connect()
PoolCommitConnect ==
  /\ poolFree > 0
  /\ poolFree' = poolFree - 1
  /\ MoveJob(JobAt("commit_connect", 0, 0), JobAt("commit_txn", 0, 0))
  /\ UNCHANGED notPoolVars

\* lines 475 and 350: the commit releases its client, then the coordinator
PoolCommitDone ==
  /\ poolFree' = poolFree + 2
  /\ MoveJob(JobAt("commit_txn", 0, 0), JobAt("ended", 0, 0))
  /\ UNCHANGED notPoolVars

PoolNext ==
  \/ PoolUpload
  \/ PoolCoordConnect
  \/ \E at \in PoolPositions : PoolWorkerConnect(at)
  \/ \E at \in PoolPositions : PoolWorkerRelease(at)
  \/ PoolAllResolved
  \/ PoolCommitConnect
  \/ PoolCommitDone

PoolSpec == Init /\ [][PoolNext]_vars


\* --------------------------------------------------- chunking.ts: chunkText
\* A text is a sequence of characters: a letter, a full stop, a blank.
Alphabet == {"a", ".", " "}
IsSpace(c) == c = " "
\* text.replace(/\s+/g, ' '): every run of white space becomes one blank
CollapseSpaces(text) ==
  LET marked == [i \in DOMAIN text |->
                   IF IsSpace(text[i])
                   THEN IF i > 1 /\ IsSpace(text[i - 1]) THEN "drop" ELSE " "
                   ELSE text[i]]
  IN SelectSeq(marked, LAMBDA c : c # "drop")
\* String.trim() of a text whose white space is single blanks
TrimBlanks(text) ==
  LET first == IF Len(text) > 0 /\ IsSpace(text[1]) THEN 2 ELSE 1
      last == IF Len(text) > 0 /\ IsSpace(text[Len(text)]) THEN Len(text) - 1 ELSE Len(text)
  IN SubSeq(text, first, last)
\* text.substring(startIndex, endIndex), indices from 0
Substring(text, startIndex, endIndex) == SubSeq(text, startIndex + 1, endIndex)
\* text.lastIndexOf(c + ' '), -1 when there is none
LastIndexOf(text, c) ==
  LET hits == {i \in 0..(Len(text) - 2) : text[i + 1] = c /\ IsSpace(text[i + 2])}
  IN IF hits = {} THEN -1 ELSE CHOOSE i \in hits : \A k \in hits : k <= i

\* the calls made: every text up to MaxTextLen characters with small options
\* (one pair with chunkOverlap >= chunkSize), a text of 1500 letters with the
\* options left out, as chunkPagedText calls it, and two sentences with an
\* overlap that reaches back to the start of the text
SmallOptions == {<<4, 1>>, <<5, 2>>, <<3, 3>>}
LongText == [i \in 1..(DEFAULT_CHUNK_SIZE + 500) |-> "a"]
TwoSentences == <<"a", "a", "a", "a", "a", ".", " ", "a", "a", "a">>
ChunkTextCalls ==
  {[text |-> t, chunkSize |-> o[1], chunkOverlap |-> o[2]] :
     t \in UNION {[1..n -> Alphabet] : n \in 0..MaxTextLen}, o \in SmallOptions}
  \cup {[text |-> LongText, chunkSize |-> 0, chunkOverlap |-> 0],
        [text |-> TwoSentences, chunkSize |-> 8, chunkOverlap |-> 7]}

\* const chunkSize = options.chunkSize || DEFAULT_CHUNK_SIZE
chunkSizeOf(args) == IF args.chunkSize = 0 THEN DEFAULT_CHUNK_SIZE ELSE args.chunkSize
chunkOverlapOf(args) ==
  IF args.chunkOverlap = 0 THEN DEFAULT_CHUNK_OVERLAP ELSE args.chunkOverlap

notSplitterVars == <<dbVars, pipelineVars, askVars, syncVars, chunkerVars, extractVars, jobsAt>>

\* chunkText(text, options) up to the while loop (lines 28-48)
ChunkTextCall ==
  LET normalized == TrimBlanks(CollapseSpaces(chunkTextArgs.text)) IN
  /\ chunkTextLoop.pc = "idle"
  /\ chunkTextLoop' =
       IF chunkOverlapOf(chunkTextArgs) >= chunkSizeOf(chunkTextArgs)
       THEN [NoSplit EXCEPT !.pc = "threw"]
       ELSE IF Len(normalized) = 0
       THEN [NoSplit EXCEPT !.pc = "returned", !.normalizedText = normalized]
       ELSE IF Len(normalized) <= chunkSizeOf(chunkTextArgs)
       THEN [NoSplit EXCEPT !.pc = "returned", !.normalizedText = normalized,
                            !.chunks = <<[text |-> normalized, chunkIndex |-> 0]>>]
       ELSE [NoSplit EXCEPT !.pc = "loop", !.normalizedText = normalized]
  /\ UNCHANGED <<chunkTextArgs, notSplitterVars>>

\* one iteration of while (startIndex < normalizedText.length), lines 50-90
ChunkTextStep ==
  LET normalizedText == chunkTextLoop.normalizedText
      chunkSize == chunkSizeOf(chunkTextArgs)
      chunkOverlap == chunkOverlapOf(chunkTextArgs)
      startIndex == chunkTextLoop.startIndex
      fullEnd == Min(startIndex + chunkSize, Len(normalizedText))
      remainingText == Substring(normalizedText, startIndex, fullEnd)
      breakpoints == {LastIndexOf(remainingText, c) + 2 :
                        c \in {c \in {".", "!", "?"} :
                                 2 * LastIndexOf(remainingText, c) > chunkSize}}
      bestBreakpoint == IF breakpoints = {} THEN -1
                        ELSE CHOOSE b \in breakpoints : \A k \in breakpoints : k <= b
      endIndex == IF fullEnd < Len(normalizedText) /\ bestBreakpoint > -1
                  THEN startIndex + bestBreakpoint
                  ELSE fullEnd
      piece == TrimBlanks(Substring(normalizedText, startIndex, endIndex))
      chunks1 == IF Len(piece) > 0
                 THEN Append(chunkTextLoop.chunks,
                             [text |-> piece, chunkIndex |-> chunkTextLoop.chunkIndex])
                 ELSE chunkTextLoop.chunks
      moved == endIndex - chunkOverlap
  IN
  /\ chunkTextLoop.pc = "loop"
  /\ startIndex < Len(normalizedText)
  /\ Len(chunkTextLoop.chunks) < MaxTextChunks
  /\ chunkTextLoop' =
       [chunkTextLoop EXCEPT
          !.chunks = chunks1,
          !.chunkIndex = IF Len(piece) > 0 THEN @ + 1 ELSE @,
          !.startIndex = IF chunks1 # <<>> /\ moved <= Len(chunks1[Len(chunks1)].text)
                         THEN endIndex
                         ELSE moved]
  /\ UNCHANGED <<chunkTextArgs, notSplitterVars>>

\* the loop condition fails: return chunks
ChunkTextReturn ==
  /\ chunkTextLoop.pc = "loop"
  /\ ~(chunkTextLoop.startIndex < Len(chunkTextLoop.normalizedText))
  /\ chunkTextLoop' = [chunkTextLoop EXCEPT !.pc = "returned"]
  /\ UNCHANGED <<chunkTextArgs, notSplitterVars>>

ChunkTextInit ==
  /\ EmptyDatabase /\ ProcessStart /\ AskIdle /\ SyncIdle
  /\ pageTexts = <<>>
  /\ ChunkerIdle /\ ExtractIdle /\ PoolIdle /\ SplitterIdle
  /\ chunkTextArgs \in ChunkTextCalls

ChunkTextNext ==
  \/ ChunkTextCall
  \/ ChunkTextStep
  \/ ChunkTextReturn

ChunkTextSpec == ChunkTextInit /\ [][ChunkTextNext]_vars


\* ------------------------------------------------------------- properties
Terminal(j) == JobExists(j) /\ JobStatus(j) \in {"complete", "failed"}
NoWorkerRunning(j) == \A w \in WorkerIds : ~WorkerRunning(j, w)

\* the committed form of a bag of staging rows
AsCommitted(B) ==
  [t \in {ChunkRow(r) : r \in DOMAIN B} |->
     LET from == {r \in DOMAIN B : ChunkRow(r) = t}
     IN B[CHOOSE r \in from : TRUE] * Cardinality(from)]

\* the chunks the chunker produces for pages 1..totalPages, each once
RECURSIVE ExpectedFrom(_, _)
ExpectedFrom(j, pageNum) ==
  IF pageNum > totalPagesOf(j) THEN EmptyBag
  ELSE LET chunks == processPage(pdf[j], pageNum, totalPagesOf(j))
       IN SeqToBag([k \in DOMAIN chunks |-> ChunkRow(StagingRow(j, chunks[k]))])
          (+) ExpectedFrom(j, pageNum + 1)
ExpectedChunks(j) == ExpectedFrom(j, 1)

WorkerStep == \E j \in JobIds, w \in WorkerIds : WorkerNext(j, w)

\* C1: in every state the committed store holds, for each job's document,
\* either no chunk or every chunk the job's workers staged; a complete
\* document has all of them visible; worker steps never write the
\* committed store.
C1_AllOrNothing ==
  \A j \in JobIds :
    /\ ChunksOf(j) = EmptyBag \/ ChunksOf(j) = AsCommitted(stagedEver[j])
    /\ BookExists(j) /\ books[j].processing_status = "complete"
         => ChunksOf(j) = AsCommitted(stagedEver[j])
C1_Atomicity ==
  [] C1_AllOrNothing /\ [][WorkerStep => UNCHANGED document_chunks]_vars
C1_Witness ==
  \E j \in JobIds :
    /\ BookExists(j) /\ books[j].processing_status = "complete"
    /\ BagCardinality(ChunksOf(j)) >= 3
    /\ totalPagesOf(j) >= 3

\* C2: once a job has terminated and none of its workers is running, either
\* (a) job and document are complete, all chunks are committed and staging
\* is empty, or (b) job and document are failed with the same error detail
\* and both the committed store and staging hold nothing of the job.
C2_CleanTermination ==
  \A j \in JobIds :
    Terminal(j) /\ cpc[j] = "ended" /\ NoWorkerRunning(j) =>
      \/ /\ JobStatus(j) = "complete"
         /\ books[j].processing_status = "complete"
         /\ ChunksOf(j) = ExpectedChunks(j)
         /\ StagingOf(j) = EmptyBag
      \/ /\ JobStatus(j) = "failed"
         /\ books[j].processing_status = "failed"
         /\ books[j].error_message = book_processing_jobs[j].error_message
         /\ ChunksOf(j) = EmptyBag
         /\ StagingOf(j) = EmptyBag

\* C3: while the commit transaction of a job is in progress every worker of
\* the job has finished and has incremented the completion counter once, so
\* completed_chunks = total_chunks and no worker can still write staging.
C3_JoinBarrier ==
  \A j \in JobIds :
    cpc[j] = "commit_txn" =>
      /\ \A w \in WorkerIds : wpc[j][w] = "resolved"
      /\ JobExists(j) =>
           book_processing_jobs[j].completed_chunks = book_processing_jobs[j].total_chunks
C3_Witness ==
  \E j \in JobIds :
    /\ cpc[j] = "commit_txn"
    /\ JobExists(j)
    /\ BagCardinality(StagingOf(j)) >= 2


\* a step in which the commit transaction of job j rolls back
CommitRollsBack(j) == cpc[j] = "commit_txn" /\ cpc'[j] = "catch"

C5_ExactChunks ==
  \A j \in JobIds :
    /\ JobExists(j) /\ JobStatus(j) = "complete" => ChunksOf(j) = ExpectedChunks(j)
    /\ (\E w \in WorkerIds : wpc[j][w] = "rejected") =>
         ~(JobExists(j) /\ JobStatus(j) = "complete")

\* C6: when the background task of a job has ended, the job is complete or
\* failed, and a failed job has a failed document: no failure leaves the job
\* in processing with no task running.
C6_FailureRecorded ==
  \A j \in JobIds :
    cpc[j] = "ended" /\ JobExists(j) =>
      /\ JobStatus(j) \in {"complete", "failed"}
      /\ JobStatus(j) = "failed" => books[j].processing_status = "failed"

JobStep(j) == CoordNext(j) \/ \E w \in WorkerIds : WorkerNext(j, w)

\* C7: once deleteBook has committed, the committed store holds no chunk of
\* the document and staging holds no row of its job, in every later state,
\* and the steps the job's tasks still take change neither chunk table.
C7_DeletedStaysGone ==
  /\ [](\A j \in JobIds :
          deleted[j] => ChunksOf(j) = EmptyBag /\ StagingOf(j) = EmptyBag)
  /\ [][\A j \in JobIds : deleted[j] /\ JobStep(j) =>
          UNCHANGED <<document_chunks, document_chunks_staging>>]_vars
C7_Witness ==
  \E j \in JobIds :
    /\ deleted[j]
    /\ BagCardinality(stagedEver[j]) >= 1
    /\ \E w \in WorkerIds : wpc[j][w] = "insert"
    /\ cpc[j] = "await"

\* C8: a commit step that runs after the document row was deleted does not
\* succeed: it ends in the failure path.
C8_MissingDocumentFails ==
  [][\A j \in JobIds :
       cpc[j] = "commit_txn" /\ ~BookExists(j) => cpc'[j] \in {"commit_txn", "catch"}]_vars

\* C9: a job only becomes complete from status committing.
C9_CommittingFirst ==
  [][\A j \in JobIds :
       (JobExists(j) /\ JobStatus(j) # "complete" /\
        j \in DOMAIN book_processing_jobs' /\ book_processing_jobs'[j].status = "complete")
       => JobStatus(j) = "committing"]_vars

\* C10: once a job is complete or failed, no step changes its row.
C10_TerminalFrozen ==
  [][\A j \in JobIds :
       Terminal(j) /\ j \in DOMAIN book_processing_jobs'
       => book_processing_jobs'[j] = book_processing_jobs[j]]_vars

\* C11: uploadAndProcessBook stores the book (processing) and its job
\* (total_chunks = 3, completed_chunks = 0, processing) in one step: in every
\* state a book row has a job row and a job row has its book row, the step
\* that creates the book row creates the job row with these values, and
\* after a failed upload neither row exists and no worker has been started.
C11_RowsTogether ==
  /\ (\A b \in DOMAIN books :
        \E j \in DOMAIN book_processing_jobs : book_processing_jobs[j].book_id = b)
  /\ (\A j \in DOMAIN book_processing_jobs : book_processing_jobs[j].book_id \in DOMAIN books)
  /\ (\A j \in JobIds :
        cpc[j] = "upload_failed" =>
          /\ ~BookExists(j) /\ ~JobExists(j)
          /\ \A w \in WorkerIds : wpc[j][w] = "idle")
C11_AtomicUpload ==
  /\ [] C11_RowsTogether
  /\ [][\A j \in JobIds :
          ~BookExists(j) /\ j \in DOMAIN books' =>
            /\ books'[j].processing_status = "processing"
            /\ j \in DOMAIN book_processing_jobs'
            /\ book_processing_jobs'[j].book_id = j
            /\ book_processing_jobs'[j].total_chunks = 3
            /\ book_processing_jobs'[j].completed_chunks = 0
            /\ book_processing_jobs'[j].status = "processing"]_vars
C11_Witness ==
  \E j \in JobIds :
    /\ cpc[j] = "connect"
    /\ BookExists(j) /\ books[j].processing_status = "processing"
    /\ JobExists(j) /\ book_processing_jobs[j].completed_chunks = 0
    /\ totalPagesOf(j) >= 2

C13_DistinctCitations ==
  ragResponse.hasRelevantDocs =>
    LET used == {k \in DOMAIN searchResults :
                   searchResults[k].distance <= SIMILARITY_THRESHOLD}
        cits == ragResponse.citations
    IN /\ {<<cits[c].book_title, cits[c].page_number>> : c \in DOMAIN cits}
            = {<<searchResults[k].book_title, searchResults[k].page_number>> : k \in used}
       /\ \A a, b \in DOMAIN cits : a # b => cits[a] # cits[b]
       /\ httpResponse.status = 200 => httpResponse.citations = cits
C13_Witness ==
  /\ ragResponse.hasRelevantDocs
  /\ httpResponse.status = 200
  /\ Len(httpResponse.citations) = 1
  /\ Len(searchResults) = 3
  /\ searchResults[1].page_number = searchResults[2].page_number
  /\ searchResults[1].book_title = searchResults[2].book_title
  /\ searchResults[2].distance <= SIMILARITY_THRESHOLD
  /\ searchResults[3].distance > SIMILARITY_THRESHOLD
  /\ searchResults[3].page_number # searchResults[1].page_number

\* C14: when embedding the question, the similarity search or the
\* completion request throws, the caller receives the refusal with no
\* citations and not an error response.
C14_FailureIsRefusal ==
  (qpc = "done" /\ qerr \in {"embedding", "search", "completion"}) =>
    /\ httpResponse.status = 200
    /\ httpResponse.answer \in {NO_DOCUMENTS_ANSWER, NO_RELEVANT_ANSWER}
    /\ httpResponse.citations = <<>>

\* C17: a question that is empty, white space only or longer than 2000
\* characters is answered 400 with the validation error in the step that
\* receives it, and nothing is stored, searched or generated for it, then or
\* later; any other question, one of exactly 2000 characters included, goes
\* on to be stored.
C17_Rejected ==
  httpResponse.status = 400 =>
    /\ qpc = "done"
    /\ messages = <<>>
    /\ searchResults = <<>>
    /\ ragResponse = NoResponse
    /\ completionRequests = 0
C17_Validation ==
  /\ [] C17_Rejected
  /\ [][(qpc = "idle" /\ qpc' # "idle") =>
          IF content'.body = 0 \/ length(content') > 2000
          THEN /\ qpc' = "done"
               /\ httpResponse'.status = 400
               /\ httpResponse'.error \in {"Query cannot be empty",
                                          "Query is too long (max 2000 characters)"}
               /\ UNCHANGED <<messages, searchResults, ragResponse, completionRequests,
                              dbVars>>
          ELSE /\ qpc' = "save_user"
               /\ httpResponse' = NoHttpResponse]_vars
C17_Witness ==
  /\ length(content) = 2000
  /\ content.lead = 1
  /\ httpResponse.status = 200
  /\ Len(messages) = 2

\* C15: a worker is only failed by an embedding error after the request of
\* its batch has been made at least twice (a failed request is retried
\* before the error is fatal).
C15_RetriedBeforeFatal ==
  [][\A j \in JobIds, w \in WorkerIds :
       (wpc[j][w] = "embed" /\ wpc'[j][w] = "rejected") => embedRequests'[j][w] >= 2]_vars

\* C16: once an upload has ended, in the upload request itself or in its
\* background task, the stored copy of the PDF is gone.
C16_TempFileRemoved ==
  \A j \in JobIds : cpc[j] \in {"upload_failed", "ended"} => ~pdfFile[j]

\* C18: when processPDF has returned a failure for a book whose row it had
\* inserted, the book is stored with status failed and the error message,
\* and no chunk of it is stored.
C18_FailedBookStored ==
  (ppc = "returned" /\ ~processingResult.success
     /\ perr \notin {"connect", "insert_book"}) =>
    /\ syncBookId \in DOMAIN books
    /\ books[syncBookId].processing_status = "failed"
    /\ books[syncBookId].error_message = processingResult.error
    /\ ChunksOf(syncBookId) = EmptyBag

\* C19: for every page count from 1 to MaxPartitionPages the three ranges
\* are disjoint, follow one another without a gap, and together are the pages
\* 1..totalPages; and a worker whose range is empty never embeds or stages
\* anything: from its page loop it only goes on to report its completion.
C19_Partition ==
  \A n \in 1..MaxPartitionPages :
    /\ UNION {PageRange(w, n) : w \in WorkerIds} = 1..n
    /\ \A a, b \in WorkerIds : a # b => PageRange(a, n) \cap PageRange(b, n) = {}
    /\ processStart(1, n) = 1
    /\ \A w \in WorkerIds \ {1} :
         PageRange(w, n) # {} =>
           /\ PageRange(w - 1, n) # {}
           /\ processStart(w, n) = processEnd(w - 1, n) + 1
C19_EmptyRangeIdle ==
  \A j \in JobIds, w \in WorkerIds :
    (cpc[j] \notin {"idle", "upload_failed"} /\ PageRange(w, totalPagesOf(j)) = {}) =>
      wpc[j][w] \notin {"embed", "insert"}
C19_RangesCoverPages ==
  /\ [](C19_Partition /\ C19_EmptyRangeIdle)
  /\ [][\A j \in JobIds, w \in WorkerIds :
          (wpc[j][w] = "page" /\ PageRange(w, totalPagesOf(j)) = {}) =>
            wpc'[j][w] \in {"page", "then"}]_vars
C19_Witness ==
  \E j \in JobIds :
    /\ totalPagesOf(j) = 2
    /\ PageRange(3, totalPagesOf(j)) = {}
    /\ wpc[j][3] = "resolved"
    /\ JobExists(j) /\ JobStatus(j) = "complete"
    /\ book_processing_jobs[j].completed_chunks = 3
    /\ BagCardinality(ChunksOf(j)) >= 2

\* the start of the last window the chunking loop of a page of pageLen
\* characters visits
FinalWindowStart(pageLen) ==
  ((pageLen - 1) \div (CHUNK_SIZE - OVERLAP)) * (CHUNK_SIZE - OVERLAP)

\* C20: of the chunks a worker has built for a page that is not the last
\* page of the PDF exactly one carries lookahead text, the chunk of the
\* page's final window; of the chunks of the last page none does.
C20_OnlyFinalWindowExtended ==
  \A j \in JobIds, w \in WorkerIds :
    wpc[j][w] \in {"embed", "insert"} =>
      LET chunks == CurrentChunks(j, w)
          extended == {chunks[k].startIndex : k \in {i \in DOMAIN chunks : chunks[i].lookahead > 0}}
      IN IF wpage[j][w] < totalPagesOf(j)
         THEN extended = {FinalWindowStart(pdf[j][wpage[j][w]])}
         ELSE extended = {}

\* ------------------------------------------------ processPage, call by call
\* on page texts without white space the loop gives what PageLoop computes
PageLoopAgrees ==
  (pageLoop.pc = "returned" /\ \A p \in DOMAIN pageTexts : Len(pageTexts[p]) <= 1)
    => pageLoop.chunks =
         processPage(PageLengths(pageTexts), pageLoop.pageNum, Len(pageTexts))

RECURSIVE SumChars(_)
SumChars(pieces) == IF pieces = <<>> THEN 0 ELSE pieces[1].chars + SumChars(Tail(pieces))

\* the non-empty pages after the page being chunked
FollowingPages ==
  {p \in (pageLoop.pageNum + 1)..Len(pageTexts) : TextLen(pageTexts[p]) > 0}

\* the lookahead of window w is the following pages' texts, joined by the
\* two-character separator and cut after the last piece
LookaheadIsPrefix(w) ==
  LET n == Len(w.pieces)
      taken == {w.pieces[k].page : k \in 1..n}
  IN
  /\ \A k \in 1..n :
       /\ w.pieces[k].page \in FollowingPages
       /\ w.pieces[k].chars \in 1..TextLen(pageTexts[w.pieces[k].page])
       /\ \A p \in FollowingPages : p < w.pieces[k].page => p \in taken
  /\ \A k \in 1..(n - 1) :
       /\ w.pieces[k].page < w.pieces[k + 1].page
       /\ w.pieces[k].chars = TextLen(pageTexts[w.pieces[k].page])
  /\ w.lookahead = IF n = 0 THEN 0 ELSE SumChars(w.pieces) + 2 * (n - 1)

\* accumulation went on while the target was not reached and pages were left
LookaheadStops(w) ==
  LET n == Len(w.pieces) IN
  /\ n >= 2 => w.lookahead - w.pieces[n].chars - 2 < LOOKAHEAD_TARGET
  /\ \/ w.lookahead >= LOOKAHEAD_TARGET
     \/ /\ FollowingPages \subseteq {w.pieces[k].page : k \in 1..n}
        /\ n > 0 => w.pieces[n].chars = TextLen(pageTexts[w.pieces[n].page])

\* C21 (as amended): the text appended to an extended chunk is a prefix of the
\* following non-empty pages' texts joined in page order by the two-character
\* separator; it holds at most 2000 page characters and at most 2002
\* characters in all, and accumulation stops as soon as the target is reached
\* or the document ends.
C21_LookaheadPrefix ==
  \A k \in DOMAIN cutWindows :
    LET w == cutWindows[k] IN
    /\ LookaheadIsPrefix(w)
    /\ IF w.isLastChunk THEN LookaheadStops(w) ELSE w.pieces = <<>>
    /\ SumChars(w.pieces) <= LOOKAHEAD_TARGET
    /\ w.lookahead <= LOOKAHEAD_TARGET + 2

\* C21 as stated: the appended text never exceeds the lookahead target
C21_LookaheadWithinTarget ==
  \A k \in DOMAIN cutWindows : cutWindows[k].lookahead <= LOOKAHEAD_TARGET

\* a lookahead of two pieces that ends two characters past the target
C21_Witness ==
  \E k \in DOMAIN cutWindows :
    /\ Len(cutWindows[k].pieces) = 2
    /\ cutWindows[k].lookahead = LOOKAHEAD_TARGET + 2

\* C22 (as amended): processPage discards exactly the windows whose chunk
\* text (window plus lookahead, trimmed) has 50 or fewer characters: every
\* window of 51 or more characters is emitted, in window order, and no emitted
\* chunk has fewer than 51 characters.
C22_DiscardsUpToMinimum ==
  LET kept == SelectSeq(cutWindows, LAMBDA w : w.pushed) IN
  /\ \A k \in DOMAIN cutWindows :
       cutWindows[k].pushed <=> cutWindows[k].trimmed >= MIN_CHUNK_LEN + 1
  /\ pageLoop.pc \in {"loop", "returned"} =>
       /\ Len(pageLoop.chunks) = Len(kept)
       /\ \A k \in DOMAIN kept :
            /\ pageLoop.chunks[k].startIndex = kept[k].startIndex
            /\ pageLoop.chunks[k].textLength = kept[k].trimmed
  /\ \A k \in DOMAIN returnedChunks : returnedChunks[k].textLength >= MIN_CHUNK_LEN + 1

\* C22 as stated: a window is discarded exactly when its trimmed text is
\* shorter than 50 characters
C22_DiscardsBelowMinimum ==
  \A k \in DOMAIN cutWindows :
    cutWindows[k].pushed <=> cutWindows[k].trimmed >= MIN_CHUNK_LEN

\* a window of exactly 50 characters was cut and not emitted
C22_Witness ==
  /\ pageLoop.pc = "returned"
  /\ \E k \in DOMAIN cutWindows :
       cutWindows[k].trimmed = MIN_CHUNK_LEN /\ ~cutWindows[k].pushed

\* the windows cut so far start at 0, 800, 1600, ... and span up to 1000
WindowOffsets ==
  LET L == TextLen(pageTexts[pageLoop.pageNum]) IN
  \A k \in DOMAIN cutWindows :
    /\ cutWindows[k].startIndex = (k - 1) * (CHUNK_SIZE - OVERLAP)
    /\ cutWindows[k].startIndex < L
    /\ cutWindows[k].endIndex = Min(cutWindows[k].startIndex + CHUNK_SIZE, L)

\* when the call has returned, every multiple of 800 below L started a window
\* and every character of the page lies in a window
WindowsCoverPage ==
  LET L == TextLen(pageTexts[pageLoop.pageNum]) IN
  pageLoop.pc = "returned" =>
    /\ Len(cutWindows) = CeilDiv(L, CHUNK_SIZE - OVERLAP)
    /\ \A i \in 0..(L - 1) :
         \E k \in DOMAIN cutWindows :
           cutWindows[k].startIndex <= i /\ i < cutWindows[k].endIndex

DocumentChunks ==
  returnedChunks \o (IF pageLoop.pc = "loop" THEN pageLoop.chunks ELSE <<>>)

C25_ExtractedOnce ==
  \A key \in CacheKeySet : pdftotextRuns[key] <= 1

\* C27 as stated: no two calls in flight use the same temporary output file,
\* and the text cached for (document, page) is the text of that page of that
\* document
C27_NoInterference ==
  /\ \A c1, c2 \in CallerIds :
       (c1 # c2 /\ InFlight(c1) /\ InFlight(c2)) =>
         calls[c1].tempOutput # calls[c2].tempOutput
  /\ \A key \in DOMAIN cachedText : cachedText[key] = TextOf(key[1], key[2])
  /\ \A c \in CallerIds :
       calls[c].pc = "returned" => calls[c].text = TextOf(calls[c].pdfPath, calls[c].pageNum)

\* C26 as stated: once a job has reached complete or failed, the page cache
\* holds no entry for that job's document
C26_CacheScopedToJob ==
  \A j \in JobIds :
    (Terminal(j) /\ cpc[j] = "ended") => \A key \in pageCache : key[1] # j

\* ------------------------------------------- the jobs and the connection pool
\* a job waits in pool.connect()
WaitsForClient(at) ==
  at.cpc \in {"connect", "commit_connect"} \/ (at.cpc = "await" /\ at.waiting > 0)
\* a job holds a client that it gives back without asking for another one
WillRelease(at) ==
  at.cpc = "commit_txn" \/ (at.cpc = "await" /\ at.holding > 0)

\* C28 as stated: the jobs never deadlock on connections: whenever a job
\* waits for a connection, one is free or some holder will release one
C28_NoPoolDeadlock ==
  (\E at \in PoolPositions : jobsAt[at] > 0 /\ WaitsForClient(at))
    => \/ poolFree > 0
       \/ \E at \in PoolPositions : jobsAt[at] > 0 /\ WillRelease(at)

\* --------------------------------------------------- chunking.ts: chunkText
\* C29 as stated: the loop of chunkText keeps making progress: every iteration
\* moves startIndex forward, up to and including the window that reaches the
\* end of the text
C29_LoopProgress ==
  [][ChunkTextStep => chunkTextLoop'.startIndex > chunkTextLoop.startIndex]_vars

\* ------------------------------------------------- two jobs ingesting at once
\* Two uploads are processed concurrently by the same server process, each a
\* one-page PDF with one chunk.  A worker may fail at the embedding request
\* and the commit transaction may fail, so that each job takes either the
\* commit path or the catch block while the other is anywhere in its own run;
\* either book may be deleted at any time.
ConcurrentJobs == {1, 2}
OnePagePdf == <<CHUNK_SIZE - OVERLAP + 100>>

ConcurrentStart ==
  /\ pdf = [j \in ConcurrentJobs |-> <<>>]
  /\ pdfFile = [j \in ConcurrentJobs |-> FALSE]
  /\ pageCache = {}
  /\ poolFree = PoolMax
  /\ cpc = [j \in ConcurrentJobs |-> "idle"]
  /\ cerr = [j \in ConcurrentJobs |-> NoErr]
  /\ joinErr = [j \in ConcurrentJobs |-> NoErr]
  /\ wpc = [j \in ConcurrentJobs |-> [w \in WorkerIds |-> "idle"]]
  /\ wpage = [j \in ConcurrentJobs |-> [w \in WorkerIds |-> 0]]
  /\ wbatch = [j \in ConcurrentJobs |-> [w \in WorkerIds |-> 0]]
  /\ reported = [j \in ConcurrentJobs |-> "none"]
  /\ deleted = [j \in ConcurrentJobs |-> FALSE]
  /\ stagedEver = [j \in ConcurrentJobs |-> EmptyBag]
  /\ embedRequests = [j \in ConcurrentJobs |-> [w \in WorkerIds |-> 0]]

ConcurrentInit == EmptyDatabase /\ ConcurrentStart /\ AskIdle /\ SyncIdle /\ UnitsIdle

ConcurrentWorker(j, w) ==
  \/ WorkerConnect(j, w)
  \/ RangeDone(j, w)
  \/ ProcessPageStep(j, w)
  \/ Embed(j, w)
  \/ EmbedFail(j, w)
  \/ StageInsert(j, w)
  \/ WorkerThen(j, w)

ConcurrentCoord(j) ==
  \/ CoordConnect(j)
  \/ CommitConnect(j)
  \/ CommitTxn(j)
  \/ CommitTxnFail(j)
  \/ CommitUnlink(j)
  \/ FailBooks(j)
  \/ FailJobs(j)
  \/ FailStaging(j)
  \/ FailUnlink(j)

ConcurrentNext ==
  \/ \E j \in ConcurrentJobs : Upload(j, OnePagePdf)
  \/ \E j \in ConcurrentJobs : ConcurrentCoord(j)
  \/ \E j \in ConcurrentJobs, w \in WorkerIds : ConcurrentWorker(j, w)
  \/ \E b \in ConcurrentJobs : DeleteBook(b)

ConcurrentSpec == ConcurrentInit /\ [][ConcurrentNext]_vars

\* the rows of job k in the four tables
RowsOf(k) ==
  [staging |-> StagingOf(k),
   chunks |-> ChunksOf(k),
   book |-> IF BookExists(k) THEN <<books[k]>> ELSE <<>>,
   job |-> IF JobExists(k) THEN <<book_processing_jobs[k]>> ELSE <<>>]

\* C30: a step of commitToProduction or of the catch block of
\* processBookInBackground for job j leaves the staging rows, the committed
\* chunks, the book row and the job row of every other job as they were
C30_OwnRowsOnly ==
  [][\A j \in ConcurrentJobs :
       (CommitTxn(j) \/ FailBooks(j) \/ FailJobs(j) \/ FailStaging(j))
         => \A k \in ConcurrentJobs \ {j} : RowsOf(k)' = RowsOf(k)]_vars

\* job 1 has committed its rows and job 2 is in its catch block, marked failed
\* with its staged rows still to delete
C30_Witness ==
  /\ cpc[1] = "commit_unlink"
  /\ ChunksOf(1) # EmptyBag
  /\ cpc[2] = "fail_staging"
  /\ StagingOf(2) # EmptyBag
  /\ JobExists(2) /\ JobStatus(2) = "failed"
====
